---- MODULE Spec2Model ----
(***************************************************************************)
(* The unified data store (bot/utils/data_store.py, three SQLite tables)   *)
(* and the CRM data adapter built on it (bot/utils/crm_cache.py).          *)
(*                                                                         *)
(* Tables are sets of rows; the SQL constraints (PRIMARY KEY, UNIQUE,      *)
(* CHECK, FOREIGN KEY with foreign_keys = ON) and the conflict clause      *)
(* INSERT OR REPLACE are modelled as SQLite applies them.  Every store     *)
(* method runs in one transaction that is rolled back when it raises.      *)
(***************************************************************************)
EXTENDS Integers, Sequences, FiniteSets, TLC

\* ------------------------------------------------------------------ bounds
MaxTime == 2        \* time.time() takes the values 0..MaxTime
MaxIds == 2         \* number of uuid4 values that may be drawn
MaxCalls == 2       \* calls each concurrent writer makes

\* ------------------------------------------------------------- value space
NULL == "NULL"                   \* Python None / SQL NULL where a text is expected
None == [t |-> "null"]           \* Python None where a dict or a list is expected
OK == "none"                     \* no exception raised
\* A validation list that lets one more value through.
MemberTypesLoose == {"candidate", "member", "bogus"}

MemberTypes == {"candidate", "member"}

Uuid(n) == "u" \o ToString(n)    \* the n-th value drawn from uuid.uuid4()

\* ------------------------------------------------------- JSON (json module)
\* A JSON value is a tagged record; the text json.dumps produces is a
\* sequence of tokens, which json.loads parses back.
JNull == None                    \* json null is Python None
JBool(b) == [t |-> "bool", b |-> b]
JNum(n) == [t |-> "num", n |-> n]
JStr(s) == [t |-> "str", s |-> s]
JArr(a) == [t |-> "arr", a |-> a]
JObj(o) == [t |-> "obj", o |-> o]      \* o: sequence of [k |-> key, v |-> value]

Punct(s) == [k |-> "punct", s |-> s]
Lit(s) == [k |-> "lit", s |-> s]
NumTok(n) == [k |-> "num", n |-> n]
StrTok(s) == [k |-> "str", s |-> s]

RECURSIVE DumpsSeq(_, _)
RECURSIVE DumpsDefault(_)

\* One array element or object member after the other, comma separated.
DumpsSeq(items, isObj) ==
    IF items = <<>> THEN <<>>
    ELSE LET h == Head(items)
             one == IF isObj
                    THEN <<StrTok(h.k), Punct(":")>> \o DumpsDefault(h.v)
                    ELSE DumpsDefault(h)
         IN  IF Tail(items) = <<>> THEN one
             ELSE one \o <<Punct(",")>> \o DumpsSeq(Tail(items), isObj)

DumpsDefault(v) ==
    CASE v.t = "null" -> <<Lit("null")>>
      [] v.t = "bool" -> <<Lit(IF v.b THEN "true" ELSE "false")>>
      [] v.t = "num"  -> <<NumTok(v.n)>>
      [] v.t = "str"  -> <<StrTok(v.s)>>
      [] v.t = "arr"  -> <<Punct("[")>> \o DumpsSeq(v.a, FALSE) \o <<Punct("]")>>
      [] v.t = "obj"  -> <<Punct("{")>> \o DumpsSeq(v.o, TRUE) \o <<Punct("}")>>

\* a serializer that leaves out the members of an object that are null.
DumpsSkippingNulls(v) ==
    LET NotNull(m) == m.v # JNull
    IN  IF v.t = "obj" THEN DumpsDefault(JObj(SelectSeq(v.o, NotNull))) ELSE DumpsDefault(v)

\* json.dumps
Dumps(v) == DumpsDefault(v)

IsPunct(tok, s) == tok.k = "punct" /\ tok.s = s

RECURSIVE ParseValue(_)
RECURSIVE ParseElems(_, _)
RECURSIVE ParseMembers(_, _)

\* Each parser returns [v |-> what it read, rest |-> the tokens left].
ParseElems(toks, acc) ==
    IF IsPunct(Head(toks), "]") THEN [v |-> JArr(acc), rest |-> Tail(toks)]
    ELSE LET e == ParseValue(toks)
             r == IF IsPunct(Head(e.rest), ",") THEN Tail(e.rest) ELSE e.rest
         IN  ParseElems(r, Append(acc, e.v))

ParseMembers(toks, acc) ==
    IF IsPunct(Head(toks), "}") THEN [v |-> JObj(acc), rest |-> Tail(toks)]
    ELSE LET key == Head(toks).s
             e == ParseValue(Tail(Tail(toks)))
             r == IF IsPunct(Head(e.rest), ",") THEN Tail(e.rest) ELSE e.rest
         IN  ParseMembers(r, Append(acc, [k |-> key, v |-> e.v]))

ParseValue(toks) ==
    LET h == Head(toks)
    IN  CASE h.k = "lit" /\ h.s = "null"  -> [v |-> JNull, rest |-> Tail(toks)]
          [] h.k = "lit" /\ h.s = "true"  -> [v |-> JBool(TRUE), rest |-> Tail(toks)]
          [] h.k = "lit" /\ h.s = "false" -> [v |-> JBool(FALSE), rest |-> Tail(toks)]
          [] h.k = "num" -> [v |-> JNum(h.n), rest |-> Tail(toks)]
          [] h.k = "str" -> [v |-> JStr(h.s), rest |-> Tail(toks)]
          [] IsPunct(h, "[") -> ParseElems(Tail(toks), <<>>)
          [] IsPunct(h, "{") -> ParseMembers(Tail(toks), <<>>)

\* json.loads
Loads(text) == ParseValue(text).v

\* ------------------------------------------------------------------- state
\* A table is the sequence of its rows in rowid order: INSERT appends (the new
\* rowid is the largest one plus one), DELETE removes, UPDATE changes a row in
\* place, and a SELECT without ORDER BY returns rows in this order.
VARIABLES
    members,        \* table members
    service_data,   \* table service_data
    cache,          \* table cache
    now,            \* time.time()
    nextId,         \* how many uuid4 values have gone into stored rows
    last,           \* the call just made: its name, what it returned and raised
    remote,         \* the contacts the CRM holds, in the order it lists them
    tasks           \* the concurrent callers: where each one is in its code

vars == <<members, service_data, cache, now, nextId, last, remote, tasks>>
env == <<remote, tasks>>

Rows(tbl) == {tbl[i] : i \in DOMAIN tbl}

\* SELECT * FROM tbl WHERE P: the rows satisfying P, in table order.
Where(tbl, P(_)) == SelectSeq(tbl, P)

\* cursor.fetchone(): the first row of the result, or None.
FetchOne(result) == IF result = <<>> THEN None ELSE Head(result)

\* ---------------------------------------------------- ServiceDataStore
MemberRow(id, e508, eo, d, name, mt, c, u) ==
    [id |-> id, email_508 |-> e508, email_other |-> eo, discord_user_id |-> d,
     display_name |-> name, member_type |-> mt, created_at |-> c, updated_at |-> u]

\* A members table whose email_508 column is not UNIQUE.
UniqueConflictOnDiscordOnly(a, b) ==
    a.discord_user_id # NULL /\ a.discord_user_id = b.discord_user_id

\* UNIQUE(email_508), UNIQUE(discord_user_id): NULLs never conflict.
UniqueConflict(a, b) ==
    \/ a.email_508 # NULL /\ a.email_508 = b.email_508
    \/ a.discord_user_id # NULL /\ a.discord_user_id = b.discord_user_id

\* A connection that does not enforce foreign keys.
DanglingUnchecked(ms, sd) == {}

\* FOREIGN KEY(member_id) REFERENCES members(id), PRAGMA foreign_keys = ON:
\* the rows of sd that refer to no row of ms.  A statement that would leave
\* such a row fails.
Dangling(ms, sd) ==
    {s \in Rows(sd) : s.member_id # NULL /\ ~\E m \in Rows(ms) : m.id = s.member_id}

\* The UPDATE branch of create_or_update_member: only non-None arguments
\* are assigned; updated_at is bumped when anything is assigned.
\* An UPDATE that sets updated_at even when no column is supplied.
UpdatedRowAlwaysStamped(r, e508, eo, d, name, mt, t) ==
    [r EXCEPT !.email_508 = IF e508 # NULL THEN e508 ELSE @,
              !.email_other = IF eo # NULL THEN eo ELSE @,
              !.discord_user_id = IF d # NULL THEN d ELSE @,
              !.display_name = IF name # NULL THEN name ELSE @,
              !.member_type = IF mt # NULL THEN mt ELSE @,
              !.updated_at = t]

\* An UPDATE that writes the time of the call into created_at.
UpdatedRowStampingCreation(r, e508, eo, d, name, mt, t) ==
    IF e508 = NULL /\ eo = NULL /\ d = NULL /\ name = NULL /\ mt = NULL
    THEN r
    ELSE [r EXCEPT !.email_508 = IF e508 # NULL THEN e508 ELSE @,
                   !.email_other = IF eo # NULL THEN eo ELSE @,
                   !.discord_user_id = IF d # NULL THEN d ELSE @,
                   !.display_name = IF name # NULL THEN name ELSE @,
                   !.member_type = IF mt # NULL THEN mt ELSE @,
                   !.created_at = t]

UpdatedRow(r, e508, eo, d, name, mt, t) ==
    IF e508 = NULL /\ eo = NULL /\ d = NULL /\ name = NULL /\ mt = NULL
    THEN r
    ELSE [r EXCEPT !.email_508 = IF e508 # NULL THEN e508 ELSE @,
                   !.email_other = IF eo # NULL THEN eo ELSE @,
                   !.discord_user_id = IF d # NULL THEN d ELSE @,
                   !.display_name = IF name # NULL THEN name ELSE @,
                   !.member_type = IF mt # NULL THEN mt ELSE @,
                   !.updated_at = t]

\* A plain INSERT that deletes nothing.
InsertMemberKeepingAll(ms, row) == Append(ms, row)

\* INSERT OR REPLACE INTO members: the rows the new row conflicts with, on the
\* primary key or on a UNIQUE column, are deleted and the new row is inserted.
InsertOrReplaceMember(ms, row) ==
    LET Keeps(o) == ~(o.id = row.id \/ UniqueConflict(row, o))
    IN  Append(Where(ms, Keeps), row)

Outcome(ms, ret, err, branch) ==
    [members |-> ms, ret |-> ret, err |-> err, branch |-> branch]

\* create_or_update_member on tables ms, sd at time t, uuid being the value
\* uuid4() would return: the new members table, the id returned, the
\* exception raised, and the branch taken (UPDATE of the row found, INSERT
\* under the caller's id, INSERT under the uuid).
CreateOrUpdateMember(ms, sd, uuid, t, member_id, e508, eo, d, name, mt) ==
    IF member_id # NULL /\ \E r \in Rows(ms) : r.id = member_id
    THEN LET i == CHOOSE j \in DOMAIN ms : ms[j].id = member_id
             new == UpdatedRow(ms[i], e508, eo, d, name, mt, t)
         IN  IF \/ new.member_type \notin MemberTypes
                \/ \E j \in DOMAIN ms : j # i /\ UniqueConflict(new, ms[j])
             THEN Outcome(ms, NULL, "IntegrityError", "update")
             ELSE Outcome([ms EXCEPT ![i] = new], member_id, OK, "update")
    ELSE LET id == IF member_id # NULL THEN member_id ELSE uuid
             branch == IF member_id # NULL THEN "insert" ELSE "insert uuid"
             after == InsertOrReplaceMember(ms, MemberRow(id, e508, eo, d, name, mt, t, t))
         IN  IF mt \notin MemberTypes
             THEN Outcome(ms, NULL, "ValueError", branch)
             ELSE IF Dangling(after, sd) # {}
             THEN Outcome(ms, NULL, "IntegrityError", branch)
             ELSE Outcome(after, id, OK, branch)

ServiceDataId(service, entity_type, entity_id) ==
    service \o ":" \o entity_type \o ":" \o entity_id

ServiceRow(service, entity_type, entity_id, member_id, text, t) ==
    [id |-> ServiceDataId(service, entity_type, entity_id), service |-> service,
     entity_type |-> entity_type, entity_id |-> entity_id,
     member_id |-> member_id, data |-> text, updated_at |-> t]

\* A plain INSERT that deletes nothing.
InsertServiceKeepingAll(sd, row) == Append(sd, row)

\* INSERT OR REPLACE INTO service_data: the row with the same primary key is
\* deleted and the new row is inserted.
InsertOrReplaceService(sd, row) ==
    LET Keeps(o) == o.id # row.id
    IN  Append(Where(sd, Keeps), row)

\* set_service_data: the foreign key makes the statement fail when member_id
\* names no member.
SetServiceData(ms, sd, t, service, entity_type, entity_id, data, member_id) ==
    LET row == ServiceRow(service, entity_type, entity_id, member_id, Dumps(data), t)
    IN  IF Dangling(ms, <<row>>) # {}
        THEN [service_data |-> sd, err |-> "IntegrityError"]
        ELSE [service_data |-> InsertOrReplaceService(sd, row), err |-> OK]

\* dict(row) with the data column parsed.
ServiceDict(row) == [row EXCEPT !.data = Loads(@)]

\* get_service_data: the row whose id is the composed id, or None.
GetServiceData(sd, service, entity_type, entity_id) ==
    LET Hit(s) == s.id = ServiceDataId(service, entity_type, entity_id)
        row == FetchOne(Where(sd, Hit))
    IN  IF row = None THEN None ELSE ServiceDict(row)

\* NULL in a REAL column, None where a number is expected.
NoTime == -1

CacheRow(key, text, expires_at, service) ==
    [key |-> key, value |-> text, expires_at |-> expires_at, service |-> service]

\* set_cache: "if ttl_seconds:" is false for None and for 0, and then the
\* entry gets no expiry.  INSERT OR REPLACE on the primary key.
SetCache(ch, t, key, value, service, ttl_seconds) ==
    LET expires_at == IF ttl_seconds # NoTime /\ ttl_seconds # 0
                      THEN t + ttl_seconds ELSE NoTime
        Keeps(o) == o.key # key
    IN  Append(Where(ch, Keeps), CacheRow(key, Dumps(value), expires_at, service))

\* an expired entry is reported absent but left in the table.
GetCacheKeepingExpired(ch, t, key) ==
    LET Hit(o) == o.key = key
        row == FetchOne(SelectSeq(ch, Hit))
    IN  IF row = None THEN [cache |-> ch, ret |-> None, branch |-> "absent"]
        ELSE IF row.expires_at # NoTime /\ row.expires_at # 0 /\ t > row.expires_at
        THEN [cache |-> ch, ret |-> None, branch |-> "expired"]
        ELSE [cache |-> ch, ret |-> Loads(row.value), branch |-> "hit"]

\* get_cache: the table afterwards, the value returned (or None) and the
\* branch taken.  An entry is expired when "expires_at and time.time() >
\* expires_at", and an expired entry is deleted by the read.
GetCache(ch, t, key) ==
    LET Hit(o) == o.key = key
        Keeps(o) == o.key # key
        row == FetchOne(Where(ch, Hit))
    IN  IF row = None THEN [cache |-> ch, ret |-> None, branch |-> "absent"]
        ELSE IF row.expires_at # NoTime /\ row.expires_at # 0 /\ t > row.expires_at
        THEN [cache |-> Where(ch, Keeps), ret |-> None, branch |-> "expired"]
        ELSE [cache |-> ch, ret |-> Loads(row.value), branch |-> "hit"]

\* A sweep that spares the entries expiring at this very instant.
ClearExpiredCacheStrict(ch, t) ==
    LET Expired(o) == o.expires_at # NoTime /\ o.expires_at < t
        Keeps(o) == ~Expired(o)
    IN  [cache |-> Where(ch, Keeps), ret |-> Len(Where(ch, Expired))]

\* clear_expired_cache: DELETE ... WHERE expires_at IS NOT NULL AND
\* expires_at <= now; returns cursor.rowcount.
ClearExpiredCache(ch, t) ==
    LET Expired(o) == o.expires_at # NoTime /\ o.expires_at <= t
        Keeps(o) == ~Expired(o)
    IN  [cache |-> Where(ch, Keeps), ret |-> Len(Where(ch, Expired))]

\* A clearing that spares the entries that have no expiry.
ClearServiceCacheExpiring(ch, service) ==
    LET Mine(o) == o.service = service /\ o.expires_at # NoTime
        Keeps(o) == ~Mine(o)
    IN  [cache |-> Where(ch, Keeps), ret |-> Len(Where(ch, Mine))]

\* clear_service_cache: DELETE FROM cache WHERE service = ?.
ClearServiceCache(ch, service) ==
    LET Mine(o) == o.service = service
        Keeps(o) == o.service # service
    IN  [cache |-> Where(ch, Keeps), ret |-> Len(Where(ch, Mine))]

\* The nested dict "services" of a member: for each (service, entity_type)
\* that occurs among the member's records, the records in table order, each
\* with its data parsed.
ServicesOf(rows) ==
    [g \in {<<r.service, r.entity_type>> : r \in Rows(rows)} |->
        LET InGroup(r) == <<r.service, r.entity_type>> = g
            group == SelectSeq(rows, InGroup)
        IN  [i \in DOMAIN group |-> ServiceDict(group[i])]]

\* A result that gathers every record, whoever it is linked to.
MemberResultUnfiltered(sd, row) ==
    IF row = None THEN None ELSE [member |-> row, services |-> ServicesOf(sd)]

\* The result every get_member_by_* builds from the member row it found.
MemberResult(sd, row) ==
    LET Owned(s) == s.member_id = row.id
    IN  IF row = None THEN None
        ELSE [member |-> row, services |-> ServicesOf(Where(sd, Owned))]

\* get_member_by_discord_id
GetMemberByDiscordId(ms, sd, discord_user_id) ==
    LET Hit(m) == m.discord_user_id = discord_user_id
    IN  MemberResult(sd, FetchOne(Where(ms, Hit)))

\* get_member_by_email_508
GetMemberByEmail508(ms, sd, email_508) ==
    LET Hit(m) == m.email_508 = email_508
    IN  MemberResult(sd, FetchOne(Where(ms, Hit)))

\* A lookup that tries the other email first.
GetMemberByAnyEmailOtherFirst(ms, sd, email) ==
    LET Hit(m) == m.email_other = email
        first == MemberResult(sd, FetchOne(Where(ms, Hit)))
    IN  IF first # None THEN first ELSE GetMemberByEmail508(ms, sd, email)

\* get_member_by_any_email: the 508 email first, then the other email.
GetMemberByAnyEmail(ms, sd, email) ==
    LET Hit(m) == m.email_other = email
        first == GetMemberByEmail508(ms, sd, email)
    IN  IF first # None THEN first ELSE MemberResult(sd, FetchOne(Where(ms, Hit)))

\* ------------------------------------------------------------- remote CRM
\* A contact as the CRM returns it; NULL is a field that is null or missing.
Contact(id, type, c508Email, emailAddress, cDiscordUserID, name) ==
    [id |-> id, type |-> type, c508Email |-> c508Email, emailAddress |-> emailAddress,
     cDiscordUserID |-> cDiscordUserID, name |-> name]

JText(s) == IF s = NULL THEN JNull ELSE JStr(s)

\* The contact as the dict response.json() gives.
ContactJson(c) ==
    JObj(<<[k |-> "id", v |-> JText(c.id)], [k |-> "type", v |-> JText(c.type)],
           [k |-> "c508Email", v |-> JText(c.c508Email)],
           [k |-> "emailAddress", v |-> JText(c.emailAddress)],
           [k |-> "cDiscordUserID", v |-> JText(c.cDiscordUserID)],
           [k |-> "name", v |-> JText(c.name)]>>)

\* espo_api.request("GET", "Contact", {"where": ..., "maxSize": n}): the
\* "list" of the response.
RemoteList(rem, Matches(_), maxSize) ==
    LET found == SelectSeq(rem, Matches)
    IN  IF Len(found) > maxSize THEN SubSeq(found, 1, maxSize) ELSE found

\* ----------------------------------------------------------- CRMDataAdapter
ServiceName == "espocrm"
OrgLocals == {"a", "b"}
OrgDomain == "@508.dev"

\* str.endswith("@508.dev") on the texts of the model
EndsWithOrgDomain(text) == \E l \in OrgLocals : text = l \o OrgDomain

\* "not x" for a text that may be None
Falsy(text) == text = NULL \/ text = ""

\* The store as the adapter sees it.
Store(ms, sd, ch, n) == [members |-> ms, service_data |-> sd, cache |-> ch, nextId |-> n]

\* The store the adapter works on.
Current == Store(members, service_data, cache, nextId)

\* _cache_contact, lines 83-113: whether the contact is mirrored, and the
\* member fields taken from it.
\* A filter that looks at the id alone.
SkippedWithoutIdOnly(c) == Falsy(c.id)

Skipped(c) == Falsy(c.id) \/ c.type \notin {"Member", "Candidate / Member", "Candidate"}

\* The placeholder texts 'None' and 'No Discord' taken for values.
MemberFieldsKeepingPlaceholders(c) ==
    LET c508 == IF Falsy(c.c508Email) THEN NULL ELSE c.c508Email
        promote == /\ ~Falsy(c.emailAddress)
                   /\ EndsWithOrgDomain(c.emailAddress)
                   /\ c508 = NULL
    IN  [member_type |-> IF c.type = "Candidate" THEN "candidate" ELSE "member",
         email_508 |-> IF promote THEN c.emailAddress ELSE c508,
         email_other |-> IF promote THEN NULL ELSE c.emailAddress,
         discord_user_id |-> IF Falsy(c.cDiscordUserID) THEN NULL ELSE c.cDiscordUserID,
         display_name |-> c.name]

\* The generic address taken for the org address whenever it is in the
\* org's domain, whatever c508Email holds.
MemberFieldsAlwaysPromoting(c) ==
    LET c508 == IF c.c508Email = "None" \/ Falsy(c.c508Email) THEN NULL
                ELSE c.c508Email
        promote == ~Falsy(c.emailAddress) /\ EndsWithOrgDomain(c.emailAddress)
    IN  [member_type |-> IF c.type = "Candidate" THEN "candidate" ELSE "member",
         email_508 |-> IF promote THEN c.emailAddress ELSE c508,
         email_other |-> IF promote THEN NULL ELSE c.emailAddress,
         discord_user_id |-> IF c.cDiscordUserID = "No Discord" \/ Falsy(c.cDiscordUserID)
                             THEN NULL ELSE c.cDiscordUserID,
         display_name |-> c.name]

MemberFields(c) ==
    LET c508 == IF c.c508Email = "None" \/ Falsy(c.c508Email) THEN NULL
                ELSE c.c508Email
        promote == /\ ~Falsy(c.emailAddress)
                   /\ EndsWithOrgDomain(c.emailAddress)
                   /\ c508 = NULL
    IN  [member_type |-> IF c.type = "Candidate" THEN "candidate" ELSE "member",
         email_508 |-> IF promote THEN c.emailAddress ELSE c508,
         email_other |-> IF promote THEN NULL ELSE c.emailAddress,
         discord_user_id |-> IF c.cDiscordUserID = "No Discord" \/ Falsy(c.cDiscordUserID)
                             THEN NULL ELSE c.cDiscordUserID,
         display_name |-> c.name]

\* _cache_contact, lines 116-122: the create_or_update_member call.
CacheContactMember(st, t, c) ==
    LET f == MemberFields(c)
        m == CreateOrUpdateMember(st.members, st.service_data, Uuid(st.nextId + 1),
                                  t, NULL, f.email_508, f.email_other,
                                  f.discord_user_id, f.display_name, f.member_type)
    IN  [st |-> IF m.err = OK THEN [st EXCEPT !.members = m.members, !.nextId = @ + 1]
                ELSE st,
         err |-> m.err, ret |-> m.ret]

\* _cache_contact, lines 125-131: the set_service_data call.
CacheContactRecord(st, t, c, member_id) ==
    LET s == SetServiceData(st.members, st.service_data, t, ServiceName,
                            "contact", c.id, ContactJson(c), member_id)
    IN  [st |-> [st EXCEPT !.service_data = s.service_data], err |-> s.err]

\* _cache_contact: [st |-> the store afterwards, err |-> the exception].
\* create_or_update_member and set_service_data commit separately.
CacheContact(st, t, c) ==
    IF Skipped(c) THEN [st |-> st, err |-> OK]
    ELSE LET m == CacheContactMember(st, t, c)
         IN  IF m.err # OK THEN [st |-> st, err |-> m.err]
             ELSE CacheContactRecord(m.st, t, c, m.ret)

Result(st, ret, err, calls, branch) ==
    [st |-> st, ret |-> ret, err |-> err, calls |-> calls, branch |-> branch]

\* find_contact_by_discord_id.  up: whether the CRM answers the request;
\* when it does not, request raises EspoAPIError, which is caught.
FindContactByDiscordId(st, t, rem, up, discord_user_id) ==
    LET member == GetMemberByDiscordId(st.members, st.service_data, discord_user_id)
        group == <<ServiceName, "contact">>
        Matches(c) == c.cDiscordUserID = discord_user_id
        contacts == RemoteList(rem, Matches, 1)
        cached == CacheContact(st, t, contacts[1])
    IN  IF member # None /\ group \in DOMAIN member.services
        THEN LET data == member.services[group][1].data
             IN  Result(st, IF data.t = "obj" THEN data ELSE None, OK, 0, "hit")
        ELSE IF ~up THEN Result(st, None, OK, 1, "miss")
        ELSE IF contacts = <<>> THEN Result(st, None, OK, 1, "miss")
        ELSE IF cached.err # OK THEN Result(cached.st, None, cached.err, 1, "miss")
        ELSE Result(cached.st, ContactJson(contacts[1]), OK, 1, "miss")

\* find_member_by_discord_id
FindMemberByDiscordId(st, t, rem, up, discord_user_id) ==
    LET member == GetMemberByDiscordId(st.members, st.service_data, discord_user_id)
        found == FindContactByDiscordId(st, t, rem, up, discord_user_id)
    IN  IF member # None THEN Result(st, member, OK, 0, "hit")
        ELSE IF found.err # OK \/ found.ret = None
        THEN Result(found.st, None, found.err, found.calls, "miss")
        ELSE Result(found.st,
                    GetMemberByDiscordId(found.st.members, found.st.service_data,
                                         discord_user_id),
                    OK, found.calls, "miss")

\* find_member_by_email
FindMemberByEmail(st, t, rem, up, email) ==
    LET member == GetMemberByAnyEmail(st.members, st.service_data, email)
        Matches(c) == c.emailAddress = email \/ c.c508Email = email
        contacts == RemoteList(rem, Matches, 1)
        cached == CacheContact(st, t, contacts[1])
    IN  IF member # None THEN Result(st, member, OK, 0, "hit")
        ELSE IF ~up THEN Result(st, None, OK, 1, "miss")
        ELSE IF contacts = <<>> THEN Result(st, None, OK, 1, "miss")
        ELSE IF cached.err # OK THEN Result(cached.st, None, cached.err, 1, "miss")
        ELSE Result(cached.st,
                    GetMemberByAnyEmail(cached.st.members, cached.st.service_data, email),
                    OK, 1, "miss")

\* get_contact_by_id reading the store first even when asked to refresh.
GetContactByIdLocalFirst(st, t, rem, up, contact_id, force_refresh) ==
    LET local == GetServiceData(st.service_data, ServiceName, "contact", contact_id)
        Matches(c) == c.id = contact_id
        contacts == RemoteList(rem, Matches, 1)
        cached == CacheContact(st, t, contacts[1])
    IN  IF local # None
        THEN Result(st, IF local.data.t = "obj" THEN local.data ELSE None, OK, 0, "hit")
        ELSE IF ~up \/ contacts = <<>> THEN Result(st, None, OK, 1, "miss")
        ELSE IF cached.err # OK THEN Result(cached.st, None, cached.err, 1, "miss")
        ELSE Result(cached.st, ContactJson(contacts[1]), OK, 1, "miss")

\* get_contact_by_id.  GET Contact/{id} raises EspoAPIError when the CRM has
\* no such contact, as when it does not answer.
GetContactById(st, t, rem, up, contact_id, force_refresh) ==
    LET local == GetServiceData(st.service_data, ServiceName, "contact", contact_id)
        Matches(c) == c.id = contact_id
        contacts == RemoteList(rem, Matches, 1)
        cached == CacheContact(st, t, contacts[1])
    IN  IF ~force_refresh /\ local # None
        THEN Result(st, IF local.data.t = "obj" THEN local.data ELSE None, OK, 0, "hit")
        ELSE IF ~up \/ contacts = <<>> THEN Result(st, None, OK, 1, "miss")
        ELSE IF cached.err # OK THEN Result(cached.st, None, cached.err, 1, "miss")
        ELSE Result(cached.st, ContactJson(contacts[1]), OK, 1, "miss")

RECURSIVE CacheEach(_, _, _)
\* "for contact in contacts: await self._cache_contact(contact)": stops at
\* the first contact whose caching raises.
CacheEach(st, t, contacts) ==
    IF contacts = <<>> THEN [st |-> st, err |-> OK]
    ELSE LET one == CacheContact(st, t, Head(contacts))
         IN  IF one.err # OK THEN one ELSE CacheEach(one.st, t, Tail(contacts))

InitializeMaxSize == 500

\* initialize without its "except Exception".
InitializeUncaught(st, t, rem, up) ==
    LET Matches(c) == c.type \in {"Member", "Candidate", "Candidate / Member"}
        loaded == CacheEach(st, t, RemoteList(rem, Matches, InitializeMaxSize))
    IN  IF ~up THEN Result(st, NULL, "EspoAPIError", 1, "failed")
        ELSE Result(loaded.st, NULL, loaded.err, 1,
                    IF loaded.err = OK THEN "loaded" ELSE "aborted")

\* initialize: _load_all_members_and_candidates with every exception caught.
\* branch: "failed" when the request raised, "aborted" when the caching of a
\* contact raised, "loaded" otherwise.
Initialize(st, t, rem, up) ==
    LET Matches(c) == c.type \in {"Member", "Candidate", "Candidate / Member"}
        loaded == CacheEach(st, t, RemoteList(rem, Matches, InitializeMaxSize))
    IN  IF ~up THEN Result(st, NULL, OK, 1, "failed")
        ELSE Result(loaded.st, NULL, OK, 1,
                    IF loaded.err = OK THEN "loaded" ELSE "aborted")

\* ------------------------------------------- search_contacts, update_contact
\* The keys of the objects the model serializes with sort_keys, in the order
\* Python compares them.
KeyOrder == <<"attribute", "list", "maxSize", "total", "type", "value", "where">>

Position(k) == CHOOSE i \in 1..Len(KeyOrder) : KeyOrder[i] = k

RECURSIVE SortedMembers(_)
\* sorted(dict.items()): the members of an object by key.
SortedMembers(o) ==
    IF o = <<>> THEN <<>>
    ELSE LET least == CHOOSE i \in 1..Len(o) :
                          \A j \in 1..Len(o) : Position(o[i].k) <= Position(o[j].k)
             others == [j \in 1..(Len(o) - 1) |-> IF j < least THEN o[j] ELSE o[j + 1]]
         IN  <<o[least]>> \o SortedMembers(others)

RECURSIVE SortKeys(_)
\* What sort_keys=True makes json.dumps write: every object, nested ones
\* included, with its members by key.
SortKeys(v) ==
    CASE v.t = "obj" -> LET s == SortedMembers(v.o)
                        IN  JObj([i \in 1..Len(s) |-> [k |-> s[i].k, v |-> SortKeys(s[i].v)]])
      [] v.t = "arr" -> JArr([i \in 1..Len(v.a) |-> SortKeys(v.a[i])])
      [] OTHER -> v

\* "search:" + md5(json.dumps(search_params, sort_keys=True)).hexdigest():
\* the digest stands for the text it is taken of.
SearchKey(search_params) ==
    [prefix |-> "search:", md5 |-> Dumps(SortKeys(search_params))]

\* dict.get: the value of a member of an object, or None.
Field(obj, key) ==
    LET Named(m) == m.k = key
        found == SelectSeq(obj.o, Named)
    IN  IF found = <<>> THEN None ELSE found[1].v

\* bool(value) of a value json.loads gives.
Truthy(v) ==
    CASE v.t = "null" -> FALSE
      [] v.t = "bool" -> v.b
      [] v.t = "num"  -> v.n # 0
      [] v.t = "str"  -> v.s # ""
      [] v.t = "arr"  -> v.a # <<>>
      [] v.t = "obj"  -> v.o # <<>>

\* One clause of "where": the attribute equals the value.
Equals(attribute, value) ==
    JObj(<<[k |-> "type", v |-> JStr("equals")], [k |-> "attribute", v |-> JStr(attribute)],
           [k |-> "value", v |-> JStr(value)]>>)

\* The contacts satisfying every clause of the criteria's "where".
SearchMatches(rem, search_params) ==
    LET where == Field(search_params, "where").a
        Matches(c) == \A i \in 1..Len(where) :
                          c[Field(where[i], "attribute").s] = Field(where[i], "value").s
    IN  SelectSeq(rem, Matches)

\* The "list" of the response: at most "maxSize" of the contacts found.
SearchList(rem, search_params) ==
    LET maxSize == Field(search_params, "maxSize")
        found == SearchMatches(rem, search_params)
    IN  IF maxSize # None /\ Len(found) > maxSize.n THEN SubSeq(found, 1, maxSize.n)
        ELSE found

\* espo_api.request("GET", "Contact", search_params): the response.
SearchResponse(rem, search_params) ==
    LET found == SearchList(rem, search_params)
    IN  JObj(<<[k |-> "total", v |-> JNum(Len(SearchMatches(rem, search_params)))],
               [k |-> "list", v |-> JArr([i \in 1..Len(found) |-> ContactJson(found[i])])]>>)

\* search_contacts.  set_cache commits before the contacts are cached, and
\* an exception of _cache_contact is not caught.
SearchContacts(st, t, rem, up, search_params, cache_ttl) ==
    LET cache_key == SearchKey(search_params)
        cached_result == GetCache(st.cache, t, cache_key)
        read == [st EXCEPT !.cache = cached_result.cache]
        response == SearchResponse(rem, search_params)
        kept == [read EXCEPT !.cache = SetCache(read.cache, t, cache_key, response,
                                                ServiceName, cache_ttl)]
        each == CacheEach(kept, t, SearchList(rem, search_params))
    IN  IF Truthy(cached_result.ret) /\ cached_result.ret.t = "obj"
        THEN Result(read, cached_result.ret, OK, 0, "hit")
        ELSE IF ~up THEN Result(read, None, "EspoAPIError", 1, "failed")
        ELSE IF each.err # OK THEN Result(each.st, None, each.err, 1, "raised")
        ELSE Result(each.st, response, OK, 1, "miss")

\* The CRM's contacts after PUT Contact/{id} with update_data.
Updated(rem, contact_id, update_data) ==
    [i \in 1..Len(rem) |->
        IF rem[i].id = contact_id
        THEN [f \in DOMAIN rem[i] |->
                 IF f \in DOMAIN update_data THEN update_data[f] ELSE rem[i][f]]
        ELSE rem[i]]

\* update_contact.  up: whether the CRM answers the PUT, which raises
\* EspoAPIError also when the CRM has no such contact; refreshed: whether it
\* answers the GET that follows.  remote: the CRM's contacts afterwards.
UpdateContact(st, t, rem, up, refreshed, contact_id, update_data) ==
    LET Named(c) == c.id = contact_id
        after == Updated(rem, contact_id, update_data)
        fresh == GetContactById(st, t, after, refreshed, contact_id, TRUE)
    IN  IF ~up \/ SelectSeq(rem, Named) = <<>>
        THEN [remote |-> rem] @@ Result(st, JBool(FALSE), OK, 1, "failed")
        ELSE IF fresh.err # OK
        THEN [remote |-> after] @@ Result(fresh.st, None, fresh.err, 2, "raised")
        ELSE [remote |-> after] @@
             Result(fresh.st, JBool(TRUE), OK, 2,
                    IF fresh.ret = None THEN "stale" ELSE "refreshed")

\* ------------------------------------------------------------- statistics
\* The rows get_all_service_data selects for a service; their ORDER BY does
\* not change how many they are.
ServiceRows(sd, service) ==
    LET Of(s) == s.service = service
    IN  Where(sd, Of)

\* SELECT service, COUNT(*) ... GROUP BY service, as the dict built from it.
CountByService(tbl) ==
    [service \in {row.service : row \in Rows(tbl)} |->
        Cardinality({i \in DOMAIN tbl : tbl[i].service = service})]

\* get_stats
GetStats(ms, sd, ch, t) ==
    [members |-> Len(ms),
     service_data |-> CountByService(sd),
     cache |-> CountByService(ch),
     expired_cache |->
         Cardinality({i \in DOMAIN ch : ch[i].expires_at # NoTime /\ ch[i].expires_at <= t})]

\* get_cache_stats: crm_contacts is the length of get_all_service_data of
\* the adapter's service.
GetCacheStats(st, t) ==
    [crm_contacts |-> Len(ServiceRows(st.service_data, ServiceName))]
        @@ GetStats(st.members, st.service_data, st.cache, t)

\* ------------------------------------------------------------- store inputs
Emails508 == {"a@508.dev"}
EmailsOther == {"x@gmail.com"}
DiscordIds == {"d1"}
Names == {"Ann"}
CallerId == "given"              \* an id the caller passes that was never drawn

Payloads ==
    {JObj(<<[k |-> "null", v |-> JNull]>>),
     JObj(<<[k |-> "array", v |-> JArr(<<JNum(1), JNum(2)>>)],
            [k |-> "nested", v |-> JObj(<<[k |-> "key", v |-> JStr("value")],
                                          [k |-> "flag", v |-> JBool(TRUE)]>>)]>>)}

\* (service, entity_type, entity_id) triples; the last two compose to one id.
ServiceKeys ==
    {<<"espocrm", "contact", "c1">>, <<"kimai", "a:b", "c">>, <<"kimai:a", "b", "c">>}

CrmContactKey == <<"espocrm", "contact", "c1">>

\* The CRM's contacts.  c1 over its life: a member before and after linking
\* a Discord account, a candidate whose fields hold the placeholders, a member
\* whose org address is in the generic email field, and a contact that is
\* neither member nor candidate.  c2: another person sharing the generic
\* address, or a duplicate of c1's Discord account.
ContactsC1 ==
    {Contact("c1", "Member", "a@508.dev", "x@gmail.com", NULL, "Ann"),
     Contact("c1", "Member", "a@508.dev", "x@gmail.com", "d1", "Ann"),
     Contact("c1", "Candidate", "None", "x@gmail.com", "No Discord", "Ann"),
     Contact("c1", "Candidate / Member", NULL, "b@508.dev", "d1", "Ann"),
     Contact("c1", "Client", NULL, "x@gmail.com", "d1", "Ann")}
ContactsC2 ==
    {Contact("c2", "Candidate", "", "x@gmail.com", NULL, "Bob"),
     Contact("c2", "Member", NULL, NULL, "d1", "Bob")}
Remotes ==
    {<<a>> : a \in ContactsC1}
    \cup {<<a, b>> : a \in ContactsC1, b \in ContactsC2}
    \cup {<<b, a>> : a \in ContactsC1, b \in ContactsC2}

\* The contacts the adapter writes in the runs of the store alone: c1 before
\* and after linking its Discord account, and c2 claiming the same account.
StoreContacts ==
    {Contact("c1", "Member", "a@508.dev", "x@gmail.com", NULL, "Ann"),
     Contact("c1", "Member", "a@508.dev", "x@gmail.com", "d1", "Ann"),
     Contact("c2", "Member", NULL, NULL, "d1", "Bob")}

LookupEmails == {"a@508.dev", "b@508.dev", "x@gmail.com"}
LookupDiscordIds == {"d1"}
ContactIds == {"c1", "c2"}

CacheKeys == {"k1", "k2"}
CacheValues == {JObj(<<[k |-> "test", v |-> JStr("data")]>>), JArr(<<JNum(1), JNull>>)}
Services == {"espocrm", "kimai"}
Ttls == {NoTime, 0, 1, 2}

\* --------------------------------------------------------- initial state
\* A call: its name, the branch of its code it took, the exception it raised,
\* what it returned.
Call(op, branch, err, ret) == [op |-> op, branch |-> branch, err |-> err, ret |-> ret]

Init ==
    /\ members = <<>>
    /\ service_data = <<>>
    /\ cache = <<>>
    /\ now = 0
    /\ nextId = 0
    /\ last = Call("none", "", OK, NULL)
    /\ remote = <<>>
    /\ tasks = <<>>

\* ------------------------------------------------------------ store actions
\* time.time() advances between calls.
Tick ==
    /\ now < MaxTime
    /\ now' = now + 1
    /\ UNCHANGED <<members, service_data, cache, nextId, last>>
    /\ UNCHANGED env

DoCreateOrUpdateMember(ids, emails, others, discords, names, types) ==
    \E member_id \in ids \cup {m.id : m \in Rows(members)},
       e508 \in emails, eo \in others, d \in discords, name \in names, mt \in types :
        LET r == CreateOrUpdateMember(members, service_data, Uuid(nextId + 1), now,
                                      member_id, e508, eo, d, name, mt)
            drew == r.err = OK /\ r.branch = "insert uuid"
        IN  /\ drew => nextId < MaxIds
            /\ members' = r.members
            /\ nextId' = IF drew THEN nextId + 1 ELSE nextId
            /\ last' = Call("create_or_update_member", r.branch, r.err, r.ret)
            /\ UNCHANGED <<service_data, cache, now>>
            /\ UNCHANGED env

DoSetServiceData(keys, payloads) ==
    \E key \in keys, data \in payloads,
       member_id \in {NULL, CallerId} \cup {m.id : m \in Rows(members)} :
        LET r == SetServiceData(members, service_data, now, key[1], key[2], key[3],
                                data, member_id)
        IN  /\ service_data' = r.service_data
            /\ last' = Call("set_service_data", "", r.err, NULL)
            /\ UNCHANGED <<members, cache, now, nextId>>
            /\ UNCHANGED env

DoGetServiceData(keys) ==
    \E key \in keys :
        /\ last' = Call("get_service_data", "", OK,
                        GetServiceData(service_data, key[1], key[2], key[3]))
        /\ UNCHANGED <<members, service_data, cache, now, nextId>>
        /\ UNCHANGED env

DoSetCacheOf(keys, values, services, ttls) ==
    \E key \in keys, value \in values, service \in services, ttl \in ttls :
        /\ cache' = SetCache(cache, now, key, value, service, ttl)
        /\ last' = Call("set_cache", "", OK, NULL)
        /\ UNCHANGED <<members, service_data, now, nextId>>
        /\ UNCHANGED env

DoSetCache == DoSetCacheOf(CacheKeys, CacheValues, Services, Ttls)

DoGetCache ==
    \E key \in CacheKeys :
        LET r == GetCache(cache, now, key)
        IN  /\ cache' = r.cache
            /\ last' = Call("get_cache", r.branch, OK, r.ret)
            /\ UNCHANGED <<members, service_data, now, nextId>>
            /\ UNCHANGED env

DoClearExpiredCache ==
    LET r == ClearExpiredCache(cache, now)
    IN  /\ cache' = r.cache
        /\ last' = Call("clear_expired_cache", "", OK, r.ret)
        /\ UNCHANGED <<members, service_data, now, nextId>>
        /\ UNCHANGED env

DoClearServiceCache ==
    \E service \in Services :
        LET r == ClearServiceCache(cache, service)
        IN  /\ cache' = r.cache
            /\ last' = Call("clear_service_cache", "", OK, r.ret)
            /\ UNCHANGED <<members, service_data, now, nextId>>
            /\ UNCHANGED env

\* _cache_contact for a contact the CRM has returned: every write of the
\* adapter to the store is one of these.
DoCacheContact(contacts) ==
    \E c \in contacts :
        LET r == CacheContact(Current, now, c)
        IN  /\ r.st.nextId <= MaxIds
            /\ members' = r.st.members
            /\ service_data' = r.st.service_data
            /\ nextId' = r.st.nextId
            /\ last' = Call("_cache_contact", "", r.err, NULL)
            /\ UNCHANGED <<cache, now>>
            /\ UNCHANGED env

\* The members table under every kind of call: both unique columns, ids the
\* caller names, valid, missing and invalid member types, linked records,
\* and the adapter's writes.
NextStore ==
    \/ DoCreateOrUpdateMember({NULL, CallerId}, {NULL} \cup Emails508, {NULL},
                              {NULL} \cup DiscordIds, {NULL},
                              {NULL, "bogus", "member"})
    \/ DoSetServiceData({CrmContactKey}, {JObj(<<>>)})
    \/ DoCacheContact(StoreContacts)

SpecStore == Init /\ [][NextStore]_vars

\* The service_data table under every key and payload, over time.
NextService ==
    \/ Tick
    \/ DoCreateOrUpdateMember({NULL}, Emails508, {NULL}, {NULL}, {NULL}, {"member"})
    \/ DoSetServiceData(ServiceKeys, Payloads)
    \/ DoGetServiceData(ServiceKeys)

SpecService == Init /\ [][NextService]_vars

\* The cache table over time.
NextCache ==
    \/ Tick
    \/ DoSetCache
    \/ DoGetCache
    \/ DoClearExpiredCache
    \/ DoClearServiceCache

SpecCache == Init /\ [][NextCache]_vars

\* clear_cache of the adapter: clear_service_cache for its own service.
ClearCache(st) ==
    LET r == ClearServiceCache(st.cache, ServiceName)
    IN  Result([st EXCEPT !.cache = r.cache], r.ret, OK, 0, "")

DoClearCache ==
    LET r == ClearCache(Current)
    IN  /\ members' = r.st.members
        /\ service_data' = r.st.service_data
        /\ cache' = r.st.cache
        /\ nextId' = r.st.nextId
        /\ last' = Call("clear_cache", "", OK, r.ret)
        /\ UNCHANGED now
        /\ UNCHANGED env

\* The cache sweeps on a store that holds members and service records.
NextSweep ==
    \/ Tick
    \/ DoCreateOrUpdateMember({NULL}, Emails508, {NULL}, {NULL}, {NULL}, {"member"})
    \/ DoSetServiceData({CrmContactKey}, {JObj(<<>>)})
    \/ DoSetCacheOf(CacheKeys, {JObj(<<>>)}, Services, {NoTime, 1})
    \/ DoClearExpiredCache
    \/ DoClearServiceCache
    \/ DoClearCache

SpecSweep == Init /\ [][NextSweep]_vars

\* ------------------------------------------------------------ member reads
\* Emails that members hold in either column.
SharedEmails == {"a@508.dev", "x@gmail.com"}

DoGetMemberByAnyEmail(emails) ==
    \E email \in emails :
        LET r == GetMemberByAnyEmail(members, service_data, email)
        IN  /\ last' = Call("get_member_by_any_email",
                            IF r = None THEN "absent"
                            ELSE IF r.member.email_508 = email THEN "email_508"
                            ELSE "email_other",
                            OK, r)
            /\ UNCHANGED <<members, service_data, cache, now, nextId>>
            /\ UNCHANGED env

DoGetMemberByDiscordId(discords) ==
    \E discord_user_id \in discords :
        /\ last' = Call("get_member_by_discord_id", "", OK,
                        GetMemberByDiscordId(members, service_data, discord_user_id))
        /\ UNCHANGED <<members, service_data, cache, now, nextId>>
        /\ UNCHANGED env

\* Members that hold the same address in different columns, looked up by it.
NextLookup ==
    \/ DoCreateOrUpdateMember({NULL}, {NULL} \cup SharedEmails, {NULL} \cup SharedEmails,
                              {NULL}, {NULL}, {"member"})
    \/ DoSetServiceData({CrmContactKey}, {JObj(<<>>)})
    \/ DoGetMemberByAnyEmail(SharedEmails)

SpecLookup == Init /\ [][NextLookup]_vars

\* Service records of two CRM contacts and of another service, attached to
\* members that have Discord ids, to other members, or to nobody.
RecordKeys ==
    {<<"espocrm", "contact", "c1">>, <<"espocrm", "contact", "c2">>,
     <<"kimai", "user", "k1">>}
RecordPayloads == {JObj(<<[k |-> "v", v |-> JNum(1)]>>), JObj(<<[k |-> "v", v |-> JNum(2)]>>)}
RecordDiscordIds == {"d1", "d2"}

\* ---------------------------------------------------------- adapter actions
\* What an adapter call leaves behind.
Adopt(op, r) ==
    /\ r.st.nextId <= MaxIds
    /\ members' = r.st.members
    /\ service_data' = r.st.service_data
    /\ cache' = r.st.cache
    /\ nextId' = r.st.nextId
    /\ last' = [op |-> op, branch |-> r.branch, err |-> r.err, ret |-> r.ret,
                calls |-> r.calls]
    /\ UNCHANGED <<now, remote, tasks>>

\* Contacts are edited, added or removed in the CRM.
RemoteEdit ==
    /\ remote' \in Remotes \ {remote}
    /\ UNCHANGED <<members, service_data, cache, now, nextId, last, tasks>>

DoInitialize ==
    \E up \in BOOLEAN : Adopt("initialize", Initialize(Current, now, remote, up))

DoFindContactByDiscordId ==
    \E up \in BOOLEAN, d \in LookupDiscordIds :
        Adopt("find_contact_by_discord_id",
              FindContactByDiscordId(Current, now, remote, up, d))

DoFindMemberByDiscordId ==
    \E up \in BOOLEAN, d \in LookupDiscordIds :
        Adopt("find_member_by_discord_id",
              FindMemberByDiscordId(Current, now, remote, up, d))

DoFindMemberByEmail ==
    \E up \in BOOLEAN, e \in LookupEmails :
        Adopt("find_member_by_email", FindMemberByEmail(Current, now, remote, up, e))

DoGetContactById ==
    \E up \in BOOLEAN, id \in ContactIds, force_refresh \in BOOLEAN :
        Adopt("get_contact_by_id",
              GetContactById(Current, now, remote, up, id, force_refresh))

InitAdapter ==
    /\ members = <<>>
    /\ service_data = <<>>
    /\ cache = <<>>
    /\ now = 0
    /\ nextId = 0
    /\ last = Call("none", "", OK, NULL)
    /\ remote \in Remotes
    /\ tasks = <<>>

\* The adapter over a CRM whose contacts change.
Next ==
    \/ RemoteEdit
    \/ DoInitialize
    \/ DoFindContactByDiscordId
    \/ DoFindMemberByDiscordId
    \/ DoFindMemberByEmail
    \/ DoGetContactById

Spec == InitAdapter /\ [][Next]_vars

\* The store's records read through the store and through the adapter.
NextRecords ==
    \/ DoCreateOrUpdateMember({NULL}, {NULL}, {NULL}, RecordDiscordIds, {NULL}, {"member"})
    \/ DoSetServiceData(RecordKeys, RecordPayloads)
    \/ DoGetMemberByDiscordId(RecordDiscordIds)
    \/ DoFindContactByDiscordId

SpecRecords == Init /\ [][NextRecords]_vars

\* ------------------------------------------------- searches and updates
\* The criteria of the searches: the contacts with an address, at most two
\* of them, written with the keys in two orders.
QueryEmail ==
    JObj(<<[k |-> "where", v |-> JArr(<<Equals("emailAddress", "x@gmail.com")>>)],
           [k |-> "maxSize", v |-> JNum(2)]>>)

QueryEmailReordered ==
    JObj(<<[k |-> "maxSize", v |-> JNum(2)],
           [k |-> "where",
            v |-> JArr(<<JObj(<<[k |-> "value", v |-> JStr("x@gmail.com")],
                                [k |-> "attribute", v |-> JStr("emailAddress")],
                                [k |-> "type", v |-> JStr("equals")]>>)>>)]>>)

SearchParams == {QueryEmail, QueryEmailReordered}
SearchTtls == {0, 1}
UpdateInputs == {[cDiscordUserID |-> "d1"]}

SyncRemotes ==
    {<<Contact("c1", "Member", "a@508.dev", "x@gmail.com", NULL, "Ann"),
       Contact("c2", "Candidate", "", "x@gmail.com", NULL, "Bob")>>}

DoSearchContacts ==
    \E up \in BOOLEAN, search_params \in SearchParams, cache_ttl \in SearchTtls :
        Adopt("search_contacts",
              SearchContacts(Current, now, remote, up, search_params, cache_ttl))

DoUpdateContact ==
    \E up \in BOOLEAN, refreshed \in BOOLEAN, id \in ContactIds,
       update_data \in UpdateInputs :
        \E r \in {UpdateContact(Current, now, remote, up, refreshed, id, update_data)} :
            /\ r.st.nextId <= MaxIds
            /\ members' = r.st.members
            /\ service_data' = r.st.service_data
            /\ cache' = r.st.cache
            /\ nextId' = r.st.nextId
            /\ remote' = r.remote
            /\ last' = [op |-> "update_contact", branch |-> r.branch, err |-> r.err,
                        ret |-> r.ret, calls |-> r.calls]
            /\ UNCHANGED <<now, tasks>>

InitSync ==
    /\ members = <<>>
    /\ service_data = <<>>
    /\ cache = <<>>
    /\ now = 0
    /\ nextId = 0
    /\ last = Call("none", "", OK, NULL)
    /\ remote \in SyncRemotes
    /\ tasks = <<>>

\* Searches, updates and point lookups over a CRM that changes only through
\* the updates, while time passes.
NextSync ==
    \/ Tick
    \/ DoSearchContacts
    \/ DoUpdateContact
    \/ DoGetContactById

SpecSync == InitSync /\ [][NextSync]_vars

\* -------------------------------------------------------- statistics runs
\* Records of the CRM of two entity types, and a record of another service.
StatsKeys ==
    {<<"espocrm", "contact", "c1">>, <<"espocrm", "account", "a1">>,
     <<"kimai", "user", "k1">>}

DoGetCacheStats ==
    /\ last' = Call("get_cache_stats", "", OK, GetCacheStats(Current, now))
    /\ UNCHANGED <<members, service_data, cache, now, nextId>>
    /\ UNCHANGED env

NextStats ==
    \/ Tick
    \/ DoSetServiceData(StatsKeys, {JObj(<<>>)})
    \/ DoSetCacheOf({"k1"}, {JObj(<<>>)}, {ServiceName}, {1})
    \/ DoGetCacheStats

SpecStats == Init /\ [][NextStats]_vars

\* ------------------------------------- concurrent find_member_by_email calls
\* Two calls of find_member_by_email for one email, each advancing by one
\* store read, remote request or store write at a time.
TaskIds == {1, 2}

Idle ==
    [pc |-> "idle", email |-> NULL, answer |-> "none", contact |-> None,
     member_id |-> NULL, err |-> OK, ret |-> None]

Done(task, err, ret) == [task EXCEPT !.pc = "done", !.err = err, !.ret = ret]

InitConc ==
    /\ members = <<>>
    /\ service_data = <<>>
    /\ cache = <<>>
    /\ now = 0
    /\ nextId = 0
    /\ last = Call("none", "", OK, NULL)
    /\ remote \in Remotes
    /\ tasks = [i \in TaskIds |-> Idle]

\* Both calls are issued for an email no member of the store has.
Issue ==
    /\ \A i \in TaskIds : tasks[i].pc = "idle"
    /\ \E e \in LookupEmails :
        /\ GetMemberByAnyEmail(members, service_data, e) = None
        /\ tasks' = [i \in TaskIds |-> [Idle EXCEPT !.pc = "read", !.email = e]]
    /\ UNCHANGED <<members, service_data, cache, now, nextId, last, remote>>

\* line 207: member = self.data_store.get_member_by_any_email(email)
StepRead(i) ==
    /\ tasks[i].pc = "read"
    /\ LET member == GetMemberByAnyEmail(members, service_data, tasks[i].email)
       IN  tasks' = [tasks EXCEPT ![i] = IF member # None THEN Done(@, OK, member)
                                         ELSE [@ EXCEPT !.pc = "fetch"]]
    /\ UNCHANGED <<members, service_data, cache, now, nextId, last, remote>>

\* lines 218-255 and 79-94: the request, and whether its contact is mirrored.
StepFetch(i) ==
    /\ tasks[i].pc = "fetch"
    /\ \E up \in BOOLEAN :
        LET Matches(c) == c.emailAddress = tasks[i].email \/ c.c508Email = tasks[i].email
            contacts == RemoteList(remote, Matches, 1)
        IN  tasks' = [tasks EXCEPT ![i] =
                IF ~up THEN Done([@ EXCEPT !.answer = "down"], OK, None)
                ELSE IF contacts = <<>> THEN Done([@ EXCEPT !.answer = "empty"], OK, None)
                ELSE IF Skipped(contacts[1])
                THEN [@ EXCEPT !.pc = "reread", !.answer = "skipped",
                               !.contact = contacts[1]]
                ELSE [@ EXCEPT !.pc = "create", !.answer = "mirrored",
                               !.contact = contacts[1]]]
    /\ UNCHANGED <<members, service_data, cache, now, nextId, last, remote>>

\* lines 116-122: create_or_update_member
StepCreate(i) ==
    /\ tasks[i].pc = "create"
    /\ nextId < MaxIds
    /\ LET m == CacheContactMember(Current, now, tasks[i].contact)
       IN  /\ members' = m.st.members
           /\ nextId' = m.st.nextId
           /\ tasks' = [tasks EXCEPT ![i] = IF m.err # OK THEN Done(@, m.err, None)
                                            ELSE [@ EXCEPT !.pc = "link",
                                                           !.member_id = m.ret]]
    /\ UNCHANGED <<service_data, cache, now, last, remote>>

\* lines 125-131: set_service_data
StepLink(i) ==
    /\ tasks[i].pc = "link"
    /\ LET s == CacheContactRecord(Current, now, tasks[i].contact, tasks[i].member_id)
       IN  /\ service_data' = s.st.service_data
           /\ tasks' = [tasks EXCEPT ![i] = IF s.err # OK THEN Done(@, s.err, None)
                                            ELSE [@ EXCEPT !.pc = "reread"]]
    /\ UNCHANGED <<members, cache, now, nextId, last, remote>>

\* line 249: return self.data_store.get_member_by_any_email(email)
StepReread(i) ==
    /\ tasks[i].pc = "reread"
    /\ tasks' = [tasks EXCEPT ![i] =
                    Done(@, OK, GetMemberByAnyEmail(members, service_data, @.email))]
    /\ UNCHANGED <<members, service_data, cache, now, nextId, last, remote>>

NextConc ==
    \/ Issue
    \/ \E i \in TaskIds : StepRead(i)
    \/ \E i \in TaskIds : StepFetch(i)
    \/ \E i \in TaskIds : StepCreate(i)
    \/ \E i \in TaskIds : StepLink(i)
    \/ \E i \in TaskIds : StepReread(i)

SpecConc == InitConc /\ [][NextConc]_vars

\* ------------------------------------------------------ concurrent writers
\* test_concurrent_access: each worker calls create_or_update_member in a
\* loop with its own email and a Discord id made of its number and the
\* iteration, and leaves the loop at the first exception.
Workers == 0..2

Pad3(i) == IF i < 10 THEN "00" \o ToString(i)
           ELSE IF i < 100 THEN "0" \o ToString(i) ELSE ToString(i)

WorkerEmail(w) == "worker" \o ToString(w) \o "@508.dev"
WorkerDiscordId(w, i) == ToString(w) \o Pad3(i)

InitWriters ==
    /\ members = <<>>
    /\ service_data = <<>>
    /\ cache = <<>>
    /\ now = 0
    /\ nextId = 0
    /\ last = Call("none", "", OK, NULL)
    /\ remote = <<>>
    /\ tasks = [w \in 1..Cardinality(Workers) |-> [i |-> 0, err |-> OK]]

\* One iteration of worker w; a call is one transaction.
WorkerCall(w) ==
    /\ tasks[w + 1].i < MaxCalls
    /\ tasks[w + 1].err = OK
    /\ LET r == CreateOrUpdateMember(members, service_data, Uuid(nextId + 1), now, NULL,
                                     WorkerEmail(w), NULL,
                                     WorkerDiscordId(w, tasks[w + 1].i),
                                     "Worker " \o ToString(w), "member")
       IN  /\ members' = r.members
           /\ nextId' = IF r.err = OK THEN nextId + 1 ELSE nextId
           /\ tasks' = [tasks EXCEPT ![w + 1] = [i |-> @.i + 1, err |-> r.err]]
           /\ last' = Call("create_or_update_member", r.branch, r.err, r.ret)
    /\ UNCHANGED <<service_data, cache, now, remote>>

NextWriters == \E w \in Workers : WorkerCall(w)

SpecWriters == InitWriters /\ [][NextWriters]_vars

\* ================================================================== claims
MemberIds(ms) == {m.id : m \in Rows(ms)}
HasRecords(sd, member_id) == \E s \in Rows(sd) : s.member_id = member_id

\* C3: in every reachable state of the store no two member rows share the
\* same non-null email_508, and no two share the same non-null
\* discord_user_id, whatever calls were made and whether they failed.
C3_UniqueIdentifiers ==
    \A i, j \in DOMAIN members :
        i # j =>
            /\ members[i].email_508 # NULL => members[i].email_508 # members[j].email_508
            /\ members[i].discord_user_id # NULL =>
                   members[i].discord_user_id # members[j].discord_user_id

\* Two members, one holding the email and one the Discord id, after a call
\* that collided was refused.
C3_Witness ==
    /\ Len(members) = 2
    /\ \E m \in Rows(members) : m.email_508 # NULL /\ m.discord_user_id = NULL
    /\ \E m \in Rows(members) : m.discord_user_id # NULL /\ m.email_508 = NULL
    /\ last.op = "create_or_update_member" /\ last.err = "IntegrityError"

C6_MembersNeverDeleted ==
    [][\A m \in Rows(members) : \E n \in Rows(members') : n.id = m.id]_vars

\* C8: set_service_data twice with the same key and payload leaves exactly
\* one row for that key, carrying the time of the later call, which is not
\* before the time left by the first call; and no reachable service_data
\* table holds two rows with the same (service, entity_type, entity_id).
C8_IdempotentUpsert ==
    /\ \A i, j \in DOMAIN service_data :
           i # j => <<service_data[i].service, service_data[i].entity_type,
                      service_data[i].entity_id>>
                    # <<service_data[j].service, service_data[j].entity_type,
                        service_data[j].entity_id>>
    /\ \A key \in ServiceKeys, data \in Payloads,
          member_id \in {NULL} \cup MemberIds(members), later \in now..MaxTime :
           LET Mine(s) == <<s.service, s.entity_type, s.entity_id>> = key
               first == SetServiceData(members, service_data, now,
                                       key[1], key[2], key[3], data, member_id)
               second == SetServiceData(members, first.service_data, later,
                                        key[1], key[2], key[3], data, member_id)
               rows == SelectSeq(second.service_data, Mine)
           IN  /\ first.err = OK /\ second.err = OK
               /\ Len(rows) = 1
               /\ rows[1].updated_at = later
               /\ rows[1].updated_at >= SelectSeq(first.service_data, Mine)[1].updated_at
               /\ rows[1].data = Dumps(data) /\ rows[1].member_id = member_id

\* A key written again at a later time: its row carries the later time and
\* the other key's row is still there.
C8_Witness ==
    /\ last.op = "set_service_data" /\ last.err = OK
    /\ Len(service_data) = 2
    /\ service_data[1].updated_at = 0
    /\ service_data[2].updated_at = now /\ now > 0
    /\ service_data[2].member_id # NULL

\* C9: for every payload and key, set_service_data followed by
\* get_service_data of the same key returns a record whose data equals the
\* payload and whose service, entity_type, entity_id and member_id are the
\* ones supplied.
C9_RoundTrip ==
    \A key \in ServiceKeys, data \in Payloads,
       member_id \in {NULL, CallerId} \cup MemberIds(members) :
        LET set == SetServiceData(members, service_data, now,
                                  key[1], key[2], key[3], data, member_id)
            got == GetServiceData(set.service_data, key[1], key[2], key[3])
        IN  set.err = OK =>
                /\ got # None
                /\ got.data = data
                /\ got.service = key[1] /\ got.entity_type = key[2]
                /\ got.entity_id = key[3] /\ got.member_id = member_id

\* get_service_data has returned a stored payload that holds a null, for a
\* record linked to a member.
C9_Witness ==
    /\ last.op = "get_service_data"
    /\ last.ret # None
    /\ last.ret.data = JObj(<<[k |-> "null", v |-> JNull]>>)
    /\ last.ret.member_id # NULL

\* C10: after set_cache(k, v, service, ttl) with ttl > 0 at time now,
\* get_cache(k) returns v and leaves the table alone as long as the clock has
\* not passed now + ttl; read after that, it returns None and the row of k is
\* deleted by that read.
C10_TtlExpiryOnRead ==
    \A key \in CacheKeys, value \in CacheValues, service \in Services,
       ttl \in {x \in Ttls : x > 0} :
        LET set == SetCache(cache, now, key, value, service, ttl)
        IN  \A later \in now..(now + ttl + 1) :
                LET read == GetCache(set, later, key)
                IN  IF later <= now + ttl
                    THEN read.ret = value /\ read.cache = set
                    ELSE /\ read.ret = None
                         /\ \A row \in Rows(read.cache) : row.key # key
                         /\ Rows(read.cache) = {row \in Rows(set) : row.key # key}

\* A get_cache that found its entry expired and deleted it, the other entry
\* being still there.
C10_Witness ==
    /\ last.op = "get_cache" /\ last.branch = "expired" /\ last.ret = None
    /\ Len(cache) = 1
    /\ now = cache[1].expires_at + 1

\* The CRM contact types the adapter mirrors as members.
MirroredTypes == {"Member", "Candidate", "Candidate / Member"}

\* C1 as stated: when the store holds no member with Discord id d and the
\* CRM answers the lookup of d with a member or candidate contact, the first
\* find_member_by_discord_id(d) makes exactly one remote call and the second,
\* made right after it, makes none and returns the same result.
C1_CacheAside ==
    \A d \in LookupDiscordIds :
        LET Carries(c) == c.cDiscordUserID = d
            held == RemoteList(remote, Carries, 1)
            first == FindMemberByDiscordId(Current, now, remote, TRUE, d)
            second == FindMemberByDiscordId(first.st, now, remote, TRUE, d)
        IN  (/\ GetMemberByDiscordId(members, service_data, d) = None
             /\ held # <<>>
             /\ held[1].type \in MirroredTypes)
            => /\ first.err = OK /\ first.calls = 1
               /\ second.err = OK /\ second.calls = 0
               /\ second.ret = first.ret

\* C7 as stated: _cache_contact for a CRM contact whose service record is
\* already linked to a member succeeds, the member keeps its id, the members
\* table does not grow, and the record stays linked to the same member.
C7_UpdatedInPlace ==
    \A i \in DOMAIN remote :
        LET c == remote[i]
            before == GetServiceData(service_data, ServiceName, "contact", c.id)
            r == CacheContact(Current, now, c)
            after == GetServiceData(r.st.service_data, ServiceName, "contact", c.id)
        IN  (/\ c.type \in MirroredTypes
             /\ before # None
             /\ before.member_id \in MemberIds(members))
            => /\ r.err = OK
               /\ before.member_id \in MemberIds(r.st.members)
               /\ Len(r.st.members) <= Len(members)
               /\ after # None /\ after.member_id = before.member_id

\* C2 as stated: when two find_member_by_email calls for one email, issued
\* on a store with no member for it, have both returned, the CRM having
\* answered each request made with a member or candidate contact, neither
\* has raised and exactly one member row holds that email.
C2_ConcurrentLookups ==
    (/\ \A i \in TaskIds : tasks[i].pc = "done" /\ tasks[i].answer \in {"none", "mirrored"}
     /\ \E i \in TaskIds : tasks[i].answer = "mirrored")
    => /\ \A i \in TaskIds : tasks[i].err = OK
       /\ Cardinality({j \in DOMAIN members :
                          \/ members[j].email_508 = tasks[1].email
                          \/ members[j].email_other = tasks[1].email}) = 1

\* C5: while the workers of test_concurrent_access run, in any order of
\* their calls, no call has raised and the members table holds exactly one
\* row per worker that has written (one per distinct email), that row
\* carrying the Discord id of the worker's latest call; when all have
\* finished the number of rows is the number of distinct emails.
C5_WritersConverge ==
    LET wrote == {w \in Workers : tasks[w + 1].i > 0}
    IN  /\ \A w \in Workers : tasks[w + 1].err = OK
        /\ Len(members) = Cardinality({WorkerEmail(w) : w \in wrote})
        /\ \A w \in wrote :
               \E j \in DOMAIN members :
                   /\ members[j].email_508 = WorkerEmail(w)
                   /\ members[j].discord_user_id = WorkerDiscordId(w, tasks[w + 1].i - 1)

\* Every worker has made all its calls, the last of them replacing a row.
C5_Witness ==
    /\ \A w \in Workers : tasks[w + 1].i = MaxCalls
    /\ Len(members) = Cardinality(Workers)
    /\ last.op = "create_or_update_member" /\ last.err = OK
    /\ nextId = MaxCalls * Cardinality(Workers)

\* C11 as stated: after set_cache(k, v, service, 1), a get_cache(k) at once
\* that returns v, and a get_cache(k) after more than one second that
\* returns None, the count clear_expired_cache() returns includes k: it is
\* one more than the number of other entries that have expired.
C11_SweepCountsReadEntry ==
    \A key \in CacheKeys, value \in CacheValues, service \in Services,
       later \in (now + 2)..(now + 3) :
        LET Others(o) == o.key # key /\ o.expires_at # NoTime /\ o.expires_at <= later
            set == SetCache(cache, now, key, value, service, 1)
            first == GetCache(set, now, key)
            second == GetCache(first.cache, later, key)
            sweep == ClearExpiredCache(second.cache, later)
        IN  /\ first.ret = value
            /\ second.ret = None
            /\ sweep.ret = Len(SelectSeq(cache, Others)) + 1

\* C11 amended: in that sequence the second get_cache(k) has already deleted
\* the entry, so the count clear_expired_cache() returns does not include k:
\* it is the number of other entries that have expired, and the sweep leaves
\* no entry for k.
C11_SweepSkipsReadEntry ==
    \A key \in CacheKeys, value \in CacheValues, service \in Services,
       later \in (now + 2)..(now + 3) :
        LET Others(o) == o.key # key /\ o.expires_at # NoTime /\ o.expires_at <= later
            set == SetCache(cache, now, key, value, service, 1)
            first == GetCache(set, now, key)
            second == GetCache(first.cache, later, key)
            sweep == ClearExpiredCache(second.cache, later)
        IN  /\ first.ret = value
            /\ second.ret = None /\ second.branch = "expired"
            /\ \A row \in Rows(second.cache) : row.key # key
            /\ sweep.ret = Len(SelectSeq(cache, Others))
            /\ \A row \in Rows(sweep.cache) : row.key # key

\* An expired entry has just been read, which emptied the table, and the
\* sweep of what is left finds nothing to remove.
C11_Witness ==
    /\ last.op = "get_cache" /\ last.branch = "expired"
    /\ cache = <<>>
    /\ now > 1
    /\ ClearExpiredCache(cache, now).ret = 0

\* C12: clear_expired_cache() removes exactly the entries whose expiry time
\* is set and not after the clock, keeping the others in their order, and
\* returns how many it removed; every entry it keeps is read by get_cache as
\* before the sweep and the read leaves it in place; and the call leaves the
\* members and service_data tables as they were.
C12_SweepRemovesReached ==
    /\ [](LET Kept(o) == o.expires_at = NoTime \/ o.expires_at > now
              sweep == ClearExpiredCache(cache, now)
          IN  /\ sweep.cache = SelectSeq(cache, Kept)
              /\ sweep.ret = Len(cache) - Len(SelectSeq(cache, Kept))
              /\ \A i \in DOMAIN sweep.cache :
                     LET read == GetCache(sweep.cache, now, sweep.cache[i].key)
                     IN  /\ read.ret = Loads(sweep.cache[i].value)
                         /\ read.ret = GetCache(cache, now, sweep.cache[i].key).ret
                         /\ read.cache = sweep.cache)
    /\ [][(last'.op = "clear_expired_cache" /\ now' = now) =>
              /\ members' = members
              /\ service_data' = service_data
              /\ cache' = ClearExpiredCache(cache, now).cache]_vars

\* A sweep has removed one entry and left another, on a store that holds a
\* member and a service record.
C12_Witness ==
    /\ last.op = "clear_expired_cache" /\ last.ret = 1
    /\ Len(cache) = 1
    /\ members # <<>> /\ service_data # <<>>

\* C13: clear_service_cache(service), and clear_cache() of the adapter for
\* "espocrm", removes exactly the entries labelled with that service, expired
\* or not, keeping the others in their order, and returns their number; the
\* members and service_data tables are left as they were.
C13_ServiceCacheCleared ==
    /\ [](/\ \A service \in Services :
                 LET Other(o) == o.service # service
                     r == ClearServiceCache(cache, service)
                 IN  /\ r.cache = SelectSeq(cache, Other)
                     /\ r.ret = Len(cache) - Len(SelectSeq(cache, Other))
          /\ LET Other(o) == o.service # "espocrm"
                 r == ClearCache(Current)
             IN  /\ r.st.cache = SelectSeq(cache, Other)
                 /\ r.ret = Len(cache) - Len(SelectSeq(cache, Other))
                 /\ r.st.members = members /\ r.st.service_data = service_data)
    /\ [][(last'.op \in {"clear_service_cache", "clear_cache"} /\ now' = now) =>
              /\ members' = members
              /\ service_data' = service_data
              /\ \E service \in Services :
                     cache' = ClearServiceCache(cache, service).cache]_vars

\* clear_cache() has removed an expired espocrm entry and left the entry of
\* the other service, on a store that holds a member and a service record.
C13_Witness ==
    /\ last.op = "clear_cache" /\ last.ret = 1
    /\ Len(cache) = 1 /\ cache[1].service # "espocrm"
    /\ now > 1
    /\ members # <<>> /\ service_data # <<>>

\* What a caller may supply for each field of a member; NULL is "omitted".
FieldInputs ==
    [email_508 : {NULL} \cup Emails508, email_other : {NULL} \cup EmailsOther,
     discord_user_id : {NULL} \cup DiscordIds, display_name : {NULL} \cup Names,
     member_type : {NULL, "bogus"} \cup MemberTypes]

\* The row the claim describes: the supplied fields merged into row r.
Merged(r, f) ==
    [id |-> r.id,
     email_508 |-> IF f.email_508 # NULL THEN f.email_508 ELSE r.email_508,
     email_other |-> IF f.email_other # NULL THEN f.email_other ELSE r.email_other,
     discord_user_id |-> IF f.discord_user_id # NULL THEN f.discord_user_id
                         ELSE r.discord_user_id,
     display_name |-> IF f.display_name # NULL THEN f.display_name ELSE r.display_name,
     member_type |-> IF f.member_type # NULL THEN f.member_type ELSE r.member_type,
     created_at |-> r.created_at, updated_at |-> r.updated_at]

\* create_or_update_member with the id of row i, one second from now.
UpdateCall(i, f) ==
    CreateOrUpdateMember(members, service_data, Uuid(nextId + 1), now + 1, members[i].id,
                         f.email_508, f.email_other, f.discord_user_id,
                         f.display_name, f.member_type)

\* C14 as stated: create_or_update_member with the id of an existing member
\* returns that id, leaves every other row alone, changes in the member's
\* row only the fields supplied, keeps created_at and sets updated_at to the
\* time of the call.
C14_UpdateMergesAndStamps ==
    \A i \in DOMAIN members, f \in FieldInputs :
        LET r == UpdateCall(i, f)
        IN  /\ r.err = OK /\ r.ret = members[i].id
            /\ r.members = [members EXCEPT
                               ![i] = [Merged(members[i], f) EXCEPT !.updated_at = now + 1]]

\* C14 amended: the call fails with an integrity error, leaving the table as
\* it was, when a supplied email_508 or discord_user_id is held by another
\* member or the supplied member type is not one of the two; otherwise it
\* returns the id, leaves every other row alone, changes only the supplied
\* fields, keeps created_at, and sets updated_at to the time of the call
\* when at least one field is supplied, leaving it as it was when none is.
C14_UpdateMergesSupplied ==
    \A i \in DOMAIN members, f \in FieldInputs :
        LET r == UpdateCall(i, f)
            taken == \E j \in DOMAIN members :
                        /\ j # i
                        /\ \/ f.email_508 # NULL /\ members[j].email_508 = f.email_508
                           \/ /\ f.discord_user_id # NULL
                              /\ members[j].discord_user_id = f.discord_user_id
            nothing == \A k \in DOMAIN f : f[k] = NULL
        IN  IF taken \/ f.member_type \notin {NULL} \cup MemberTypes
            THEN r.err = "IntegrityError" /\ r.members = members
            ELSE /\ r.err = OK /\ r.ret = members[i].id
                 /\ r.members = [members EXCEPT
                        ![i] = [Merged(members[i], f) EXCEPT
                                   !.updated_at = IF nothing THEN @ ELSE now + 1]]

\* An update by id has just given the Discord id to one of two members.
C14_Witness ==
    /\ last.op = "create_or_update_member" /\ last.branch = "update" /\ last.err = OK
    /\ Len(members) = 2
    /\ \E i \in DOMAIN members :
           /\ members[i].id = last.ret
           /\ members[i].discord_user_id # NULL /\ members[i].email_508 = NULL
    /\ \E i \in DOMAIN members : members[i].id # last.ret /\ members[i].email_508 # NULL

\* C15: create_or_update_member without an id, or with an id the store does
\* not hold, and with a member type that is missing or is not "candidate" or
\* "member", raises the validation error and leaves the members table as it
\* was.
C15_InvalidTypeRejected ==
    \A member_id \in {NULL, CallerId} \ MemberIds(members), f \in FieldInputs :
        f.member_type \in {NULL, "bogus"} =>
            LET r == CreateOrUpdateMember(members, service_data, Uuid(nextId + 1), now,
                                          member_id, f.email_508, f.email_other,
                                          f.discord_user_id, f.display_name, f.member_type)
            IN  r.err = "ValueError" /\ r.members = members

\* A call naming an id the store does not hold has just been refused for
\* its member type, on a store that holds a member.
C15_Witness ==
    /\ last.op = "create_or_update_member" /\ last.branch = "insert"
    /\ last.err = "ValueError"
    /\ members # <<>>

\* C16 as stated: create_or_update_member with a valid member type and an id
\* the store does not hold, when it succeeds, stores the row under a freshly
\* generated id and returns that id, not the id the caller supplied.
C16_UnknownIdRegenerated ==
    \A f \in FieldInputs :
        (CallerId \notin MemberIds(members) /\ f.member_type \in MemberTypes) =>
            LET r == CreateOrUpdateMember(members, service_data, Uuid(nextId + 1), now,
                                          CallerId, f.email_508, f.email_other,
                                          f.discord_user_id, f.display_name, f.member_type)
            IN  r.err = OK =>
                    /\ r.ret = Uuid(nextId + 1)
                    /\ r.ret \in MemberIds(r.members)
                    /\ CallerId \notin MemberIds(r.members)

\* C17: get_member_by_any_email(e) returns the member whose email_508 is e
\* when there is one, even if another member has email_other = e; otherwise
\* a member whose email_other is e when there is one; and None only when no
\* member has e in either column.
C17_PrimaryEmailFirst ==
    \A e \in SharedEmails :
        LET r == GetMemberByAnyEmail(members, service_data, e)
            primary == {m \in Rows(members) : m.email_508 = e}
            other == {m \in Rows(members) : m.email_other = e}
        IN  /\ primary # {} => r # None /\ r.member \in primary
            /\ (primary = {} /\ other # {}) => r # None /\ r.member \in other
            /\ r = None <=> (primary = {} /\ other = {})

\* An address held by one member as email_other and by a later member as
\* email_508 has just been looked up, and the later member was returned.
C17_Witness ==
    /\ last.op = "get_member_by_any_email" /\ last.branch = "email_508"
    /\ Len(members) = 2
    /\ members[1].email_other = last.ret.member.email_508
    /\ members[2] = last.ret.member

\* C18: get_member_by_discord_id(d) returns None when no member has d; for
\* the member that has it, the records returned are exactly the service
\* records linked to that member, each once, each in the group of its own
\* service and entity type with its payload parsed; and after one contact
\* record is attached to a member that had none, the result holds a single
\* group, that service's "contact", with one entry carrying the payload.
C18_RecordsOfTheMember ==
    \A d \in RecordDiscordIds :
        LET r == GetMemberByDiscordId(members, service_data, d)
            holders == {m \in Rows(members) : m.discord_user_id = d}
            owned == {i \in DOMAIN service_data : service_data[i].member_id = r.member.id}
            Entries(g) == {<<g, k>> : k \in DOMAIN r.services[g]}
            entries == UNION {Entries(g) : g \in DOMAIN r.services}
        IN  /\ r = None <=> holders = {}
            /\ r # None =>
                /\ r.member \in holders
                /\ Cardinality(entries) = Cardinality(owned)
                /\ \A i \in owned :
                       LET g == <<service_data[i].service, service_data[i].entity_type>>
                       IN  /\ g \in DOMAIN r.services
                           /\ \E k \in DOMAIN r.services[g] :
                                  r.services[g][k] =
                                      [service_data[i] EXCEPT !.data = Loads(@)]
                /\ \A e \in entries :
                       LET rec == r.services[e[1]][e[2]]
                       IN  /\ rec.member_id = r.member.id
                           /\ <<rec.service, rec.entity_type>> = e[1]
                /\ owned = {} =>
                       \A key \in RecordKeys, data \in RecordPayloads :
                           LET set == SetServiceData(members, service_data, now, key[1],
                                                     key[2], key[3], data, r.member.id)
                               after == GetMemberByDiscordId(members, set.service_data, d)
                               g == <<key[1], key[2]>>
                           IN  /\ set.err = OK
                               /\ DOMAIN after.services = {g}
                               /\ Len(after.services[g]) = 1
                               /\ after.services[g][1].data = data
                               /\ after.services[g][1].entity_id = key[3]

\* A member has just been read with its two records in two groups, while a
\* third record is linked to another member.
C18_Witness ==
    /\ last.op = "get_member_by_discord_id"
    /\ last.ret # None
    /\ Cardinality(DOMAIN last.ret.services) = 2
    /\ Len(service_data) = 3
    /\ \E s \in Rows(service_data) :
           s.member_id \in MemberIds(members) \ {last.ret.member.id}

\* C19 as stated: when a member holds a CRM contact record and a second one
\* is attached a second later, the "contact" list of the member's result has
\* its most recently updated record first, and find_contact_by_discord_id, a
\* hit, returns the payload of that most recently updated record.
C19_MostRecentContact ==
    \A d \in LookupDiscordIds, older \in RecordPayloads, newer \in RecordPayloads :
        LET m == GetMemberByDiscordId(members, service_data, d)
            one == SetServiceData(members, service_data, now, "espocrm", "contact", "c1",
                                  older, m.member.id)
            two == SetServiceData(members, one.service_data, now + 1, "espocrm", "contact",
                                  "c2", newer, m.member.id)
            list == GetMemberByDiscordId(members, two.service_data, d)
                        .services[<<"espocrm", "contact">>]
            found == FindContactByDiscordId(
                         Store(members, two.service_data, cache, nextId),
                         now + 1, remote, TRUE, d)
        IN  (m # None /\ older # newer) =>
                /\ \A k \in DOMAIN list : list[1].updated_at >= list[k].updated_at
                /\ found.calls = 0
                /\ found.ret = newer

\* C20 as stated: find_contact_by_discord_id(d) on a hit (a member with d
\* holds a CRM contact record) makes no remote call and leaves the store as
\* it was; on a miss it makes one remote call, and when the CRM answers with
\* a member or candidate contact the call returns it with the contact
\* stored, so that the store then has a member with d holding that record.
C20_HitOrStoredOnMiss ==
    \A d \in LookupDiscordIds :
        LET member == GetMemberByDiscordId(members, service_data, d)
            hit == member # None /\ <<ServiceName, "contact">> \in DOMAIN member.services
            Carries(c) == c.cDiscordUserID = d
            held == RemoteList(remote, Carries, 1)
            r == FindContactByDiscordId(Current, now, remote, TRUE, d)
            after == GetMemberByDiscordId(r.st.members, r.st.service_data, d)
        IN  IF hit
            THEN r.err = OK /\ r.calls = 0 /\ r.st = Current
            ELSE /\ r.calls = 1
                 /\ (held # <<>> /\ held[1].type \in MirroredTypes) =>
                        /\ r.err = OK
                        /\ r.ret = ContactJson(held[1])
                        /\ after # None
                        /\ \E rec \in Rows(r.st.service_data) :
                               /\ rec.entity_id = held[1].id
                               /\ rec.member_id = after.member.id

\* C21: a failure of the remote request made by find_contact_by_discord_id
\* reaches the caller as an exception; the call returns None without an
\* exception only when the CRM answered the request with no contact.
C21_RemoteErrorPropagated ==
    \A d \in LookupDiscordIds : \A up \in BOOLEAN :
        LET Carries(c) == c.cDiscordUserID = d
            r == FindContactByDiscordId(Current, now, remote, up, d)
        IN  (r.calls = 1) =>
                /\ ~up => r.err # OK
                /\ (r.err = OK /\ r.ret = None) =>
                       (up /\ RemoteList(remote, Carries, 1) = <<>>)

\* C22: initialize() never raises, whether the bulk request or the caching
\* of a contact fails; it makes exactly one remote request, and when that
\* request fails it leaves members, service_data and cache as they were.
C22_InitializeNeverRaises ==
    \A up \in BOOLEAN :
        LET r == Initialize(Current, now, remote, up)
        IN  /\ r.err = OK
            /\ r.calls = 1
            /\ ~up => /\ r.branch = "failed"
                      /\ r.st = Current
            /\ last.op = "initialize" => last.err = OK /\ last.calls = 1

\* initialize() has come back from a failed bulk request on a store that
\* holds members, and from a load that the caching of a contact aborted.
C22_Witness ==
    /\ last.op = "initialize"
    /\ last.branch = "failed"
    /\ members # <<>>
    /\ Initialize(Current, now, remote, TRUE).branch = "aborted"

\* C23: a contact whose caching fails does not stop initialize(): every
\* member or candidate contact of the bulk response whose own caching does
\* not fail, those listed after a failing one included, has its record in
\* the store when initialize() returns.
C23_LoadContinuesPastFailure ==
    LET Matches(c) == c.type \in MirroredTypes
        contacts == RemoteList(remote, Matches, InitializeMaxSize)
        r == Initialize(Current, now, remote, TRUE)
    IN  \A i \in 1..Len(contacts) :
            \/ GetServiceData(r.st.service_data, ServiceName, "contact",
                              contacts[i].id) # None
            \/ CacheContact(r.st, now, contacts[i]).err # OK

\* The contacts whose addresses the promotion rule is read on: c508Email
\* absent, empty, the placeholder or an org address; emailAddress absent,
\* outside the org's domain or inside it.
PromotionContacts ==
    {Contact("c1", type, c508Email, emailAddress, NULL, "Ann") :
        type \in {"Member", "Candidate"},
        c508Email \in {NULL, "", "None", "a@508.dev"},
        emailAddress \in {NULL, "x@gmail.com", "b@508.dev"}}

\* C24: when _cache_contact returns for a member or candidate contact, the
\* member its record is linked to has, if c508Email is absent or a
\* placeholder and emailAddress ends with the org's domain, emailAddress as
\* email_508 and no email_other; if c508Email is present, c508Email as
\* email_508 and emailAddress as email_other.
C24_EmailPromotion ==
    \A c \in PromotionContacts :
        LET r == CacheContact(Current, now, c)
            rec == GetServiceData(r.st.service_data, ServiceName, "contact", c.id)
            Holder(m) == m.id = rec.member_id
            member == FetchOne(Where(r.st.members, Holder))
            absent == c.c508Email \in {NULL, "", "None"}
        IN  r.err = OK =>
                /\ rec # None
                /\ member # None
                /\ (absent /\ EndsWithOrgDomain(c.emailAddress)) =>
                       /\ member.email_508 = c.emailAddress
                       /\ member.email_other = NULL
                /\ ~absent =>
                       /\ member.email_508 = c.c508Email
                       /\ member.email_other = c.emailAddress

\* A lookup has cached a contact without c508Email whose emailAddress is in
\* the org's domain, and the member holds it as email_508.
C24_Witness ==
    /\ last.branch = "miss"
    /\ \E m \in Rows(members), rec \in Rows(service_data) :
           /\ rec.member_id = m.id
           /\ Loads(rec.data) =
                  ContactJson(Contact("c1", "Candidate / Member", NULL, "b@508.dev",
                                      "d1", "Ann"))
           /\ m.email_508 = "b@508.dev"
           /\ m.email_other = NULL

\* C25: with a contact record for id in the store, get_contact_by_id(id)
\* makes no remote call, returns the record's payload and leaves the store
\* alone; get_contact_by_id(id, force_refresh=True) makes exactly one remote
\* call, whether or not a record for id is in the store.
C25_LocalReadUnlessForced ==
    \A id \in ContactIds : \A up \in BOOLEAN :
        LET local == GetServiceData(service_data, ServiceName, "contact", id)
            plain == GetContactById(Current, now, remote, up, id, FALSE)
            forced == GetContactById(Current, now, remote, up, id, TRUE)
        IN  /\ local # None =>
                /\ plain.calls = 0
                /\ plain.err = OK
                /\ plain.ret = local.data
                /\ plain.st = Current
            /\ forced.calls = 1

\* get_contact_by_id has answered from the store, for a contact the CRM
\* holds in another version than the stored one.
C25_Witness ==
    /\ last.op = "get_contact_by_id"
    /\ last.calls = 0
    /\ last.ret.t = "obj"
    /\ \E i \in 1..Len(remote) :
           /\ last.ret.o[1].v = JStr(remote[i].id)
           /\ last.ret # ContactJson(remote[i])

\* C26: when update_contact(id, fields) returns True, the store's contact
\* record for id holds the record the CRM now returns for id, and a
\* following get_contact_by_id(id) returns it without a remote call; also
\* when the store held a record for id before the update.
C26_RefreshedAfterUpdate ==
    \A id \in ContactIds, update_data \in UpdateInputs :
        \A up \in BOOLEAN, refreshed \in BOOLEAN :
            LET r == UpdateContact(Current, now, remote, up, refreshed, id, update_data)
                Named(c) == c.id = id
                held == SelectSeq(r.remote, Named)
                local == GetServiceData(r.st.service_data, ServiceName, "contact", id)
                next == GetContactById(r.st, now, r.remote, TRUE, id, FALSE)
            IN  (r.err = OK /\ r.ret = JBool(TRUE)) =>
                    /\ held # <<>>
                    /\ local # None
                    /\ local.data = ContactJson(held[1])
                    /\ next.calls = 0
                    /\ next.ret = ContactJson(held[1])

\* C27: update_contact never raises and returns False whenever a remote
\* request of the operation fails, the update request or the refresh
\* request after it; when the update request fails, no refresh request is
\* made and the store is unchanged.
C27_FalseOnAnyRemoteFailure ==
    \A id \in ContactIds, update_data \in UpdateInputs :
        \A up \in BOOLEAN, refreshed \in BOOLEAN :
            LET r == UpdateContact(Current, now, remote, up, refreshed, id, update_data)
            IN  /\ r.err = OK
                /\ ~up => /\ r.ret = JBool(FALSE)
                          /\ r.calls = 1
                          /\ r.st = Current
                /\ ~refreshed => r.ret = JBool(FALSE)

\* C28: two criteria that are equal up to the order of their keys share one
\* cached response: after a search_contacts call that asked the CRM, a call
\* with the other criteria made while the TTL has not passed makes no remote
\* request and returns the response the first call stored, and a call made
\* after the TTL has passed makes a remote request.
C28_SharedResponse ==
    \A p \in SearchParams, q \in SearchParams, cache_ttl \in SearchTtls :
        LET first == SearchContacts(Current, now, remote, TRUE, p, cache_ttl)
        IN  (SortKeys(p) = SortKeys(q) /\ first.calls = 1) =>
                \A later \in now..MaxTime, rem \in {remote, <<>>}, up \in BOOLEAN :
                    LET second == SearchContacts(first.st, later, rem, up, q, cache_ttl)
                    IN  IF later <= now + cache_ttl
                        THEN /\ second.calls = 0
                             /\ second.err = OK
                             /\ second.ret = SearchResponse(remote, p)
                        ELSE second.calls = 1

\* C29: after a search_contacts call that asked the CRM, whatever the store
\* held before, every member or candidate contact of the response is cached:
\* get_contact_by_id of its id, and find_contact_by_discord_id of its
\* Discord id when it has one, make no remote call.
C29_WarmAfterSearch ==
    \A search_params \in SearchParams, cache_ttl \in SearchTtls :
        LET r == SearchContacts(Current, now, remote, TRUE, search_params, cache_ttl)
            contacts == SearchList(remote, search_params)
        IN  r.calls = 1 =>
                \A i \in 1..Len(contacts) :
                    LET c == contacts[i]
                        d == MemberFields(c).discord_user_id
                    IN  c.type \in MirroredTypes =>
                            /\ GetContactById(r.st, now, remote, TRUE, c.id, FALSE).calls = 0
                            /\ d # NULL =>
                                   FindContactByDiscordId(r.st, now, remote, TRUE, d).calls = 0

\* C30: whenever find_contact_by_discord_id, find_member_by_email or
\* get_contact_by_id misses locally and the CRM answers with a contact, the
\* call returns with the contact stored, and the same lookup made next is
\* answered from the store without a remote call.
C30_WriteThroughOnMiss ==
    /\ \A d \in LookupDiscordIds :
           LET Carries(c) == c.cDiscordUserID = d
               r == FindContactByDiscordId(Current, now, remote, TRUE, d)
           IN  (r.calls = 1 /\ RemoteList(remote, Carries, 1) # <<>>) =>
                   /\ r.err = OK
                   /\ FindContactByDiscordId(r.st, now, remote, TRUE, d).calls = 0
    /\ \A e \in LookupEmails :
           LET Carries(c) == c.emailAddress = e \/ c.c508Email = e
               r == FindMemberByEmail(Current, now, remote, TRUE, e)
           IN  (r.calls = 1 /\ RemoteList(remote, Carries, 1) # <<>>) =>
                   /\ r.err = OK
                   /\ FindMemberByEmail(r.st, now, remote, TRUE, e).calls = 0
    /\ \A id \in ContactIds :
           LET Named(c) == c.id = id
               r == GetContactById(Current, now, remote, TRUE, id, FALSE)
           IN  (r.calls = 1 /\ RemoteList(remote, Named, 1) # <<>>) =>
                   /\ r.err = OK
                   /\ GetContactById(r.st, now, remote, TRUE, id, FALSE).calls = 0

\* C31: get_cache_stats() returns the statistics of get_stats() and, as
\* crm_contacts, the number of the CRM service's records of entity type
\* 'contact'; its records of another entity type are not counted.
C31_CountsContactRecords ==
    LET stats == GetCacheStats(Current, now)
        base == GetStats(members, service_data, cache, now)
    IN  /\ \A f \in DOMAIN base : stats[f] = base[f]
        /\ stats.crm_contacts =
               Cardinality({i \in DOMAIN service_data :
                               /\ service_data[i].service = ServiceName
                               /\ service_data[i].entity_type = "contact"})

\* C32: every member row has member_type 'candidate' or 'member'; a
\* create_or_update_member call that would store another value, or none on
\* the insert path, fails and leaves the members table as it was, on the
\* insert path and on the update path alike.
C32_MemberTypeValid ==
    /\ \A m \in Rows(members) : m.member_type \in {"candidate", "member"}
    /\ \A member_id \in {NULL, CallerId} \cup MemberIds(members), f \in FieldInputs :
           LET r == CreateOrUpdateMember(members, service_data, Uuid(nextId + 1), now,
                                         member_id, f.email_508, f.email_other,
                                         f.discord_user_id, f.display_name, f.member_type)
               invalid == \/ f.member_type = "bogus"
                          \/ f.member_type = NULL /\ member_id \notin MemberIds(members)
           IN  /\ invalid => r.err # OK /\ r.members = members
               /\ \A m \in Rows(r.members) : m.member_type \in {"candidate", "member"}

\* An update of the only member has just been refused, which only its
\* member type can cause, and the row is still valid.
C32_Witness ==
    /\ last.op = "create_or_update_member" /\ last.branch = "update"
    /\ last.err = "IntegrityError"
    /\ Len(members) = 1

\* C33: every member row has email_508, email_other or discord_user_id set:
\* neither create_or_update_member nor _cache_contact, for a member contact
\* without addresses and without a Discord id, stores a member with all
\* three null.
C33_SomeIdentifierSet ==
    LET Identified(m) ==
            m.email_508 # NULL \/ m.email_other # NULL \/ m.discord_user_id # NULL
        bare == Contact("c2", "Member", NULL, NULL, NULL, "Bob")
    IN  /\ \A m \in Rows(members) : Identified(m)
        /\ \A m \in Rows(CacheContact(Current, now, bare).st.members) : Identified(m)

\* C34: while time does not go back, a member's updated_at never decreases
\* from one state to the next, and created_at <= updated_at holds for every
\* member row.
C34_UpdatedAtMonotonic ==
    /\ [](\A m \in Rows(members) : m.created_at <= m.updated_at)
    /\ [][\A i \in DOMAIN members, j \in DOMAIN members' :
              members[i].id = members'[j].id =>
                  members[i].updated_at <= members'[j].updated_at]_vars

\* A member has been updated by id at a later time than it was created.
C34_Witness ==
    /\ last.op = "create_or_update_member" /\ last.branch = "update"
    /\ last.err = OK
    /\ \E m \in Rows(members) : m.id = last.ret /\ m.created_at < m.updated_at

\* Contacts of every type, with and without an id.
TypedContacts ==
    {Contact(id, type, "a@508.dev", "x@gmail.com", NULL, "Ann") :
        id \in {"c1", NULL, ""},
        type \in {"Member", "Candidate / Member", "Candidate", "Client", "", NULL}}

\* C35: _cache_contact discards a contact without an id or whose type is
\* not 'Member', 'Candidate / Member' or 'Candidate', leaving the three
\* tables as they were; for the others, when it returns, one member has
\* been added, of type 'candidate' for 'Candidate' and 'member' otherwise,
\* and the one 'contact' record of the contact's id holds the whole payload
\* and is linked to that member.
C35_TypeMapping ==
    \A c \in TypedContacts :
        LET r == CacheContact(Current, now, c)
            mirrored == /\ c.id \notin {NULL, ""}
                        /\ c.type \in {"Member", "Candidate / Member", "Candidate"}
            rec == GetServiceData(r.st.service_data, ServiceName, "contact", c.id)
        IN  IF ~mirrored THEN r.err = OK /\ r.st = Current
            ELSE r.err = OK =>
                    /\ Cardinality(MemberIds(r.st.members) \ MemberIds(members)) = 1
                    /\ rec # None
                    /\ rec.entity_type = "contact"
                    /\ rec.data = ContactJson(c)
                    /\ rec.member_id \in MemberIds(r.st.members) \ MemberIds(members)
                    /\ \A m \in Rows(r.st.members) :
                           m.id = rec.member_id =>
                               m.member_type = IF c.type = "Candidate" THEN "candidate"
                                               ELSE "member"
                    /\ r.st.cache = cache

\* A lookup has discarded a contact that is neither member nor candidate
\* and has mirrored a candidate.
C35_Witness ==
    /\ last.op = "find_contact_by_discord_id"
    /\ last.calls = 1
    /\ last.ret # None
    /\ Field(last.ret, "type") = JStr("Client")
    /\ \E m \in Rows(members) : m.member_type = "candidate" /\ HasRecords(service_data, m.id)

\* Contacts whose org address and Discord id are absent or placeholders.
PlaceholderContacts ==
    {Contact("c2", "Candidate", c508Email, "x@gmail.com", cDiscordUserID, "Bob") :
        c508Email \in {"None", "", NULL}, cDiscordUserID \in {"No Discord", "", NULL}}

C37_UpdateConflictRejected ==
    \A i \in DOMAIN members, j \in DOMAIN members, f \in FieldInputs :
        LET r == UpdateCall(i, f)
            held == \/ f.email_508 # NULL /\ members[j].email_508 = f.email_508
                    \/ /\ f.discord_user_id # NULL
                       /\ members[j].discord_user_id = f.discord_user_id
        IN  (j # i /\ held) =>
                /\ r.err = "IntegrityError"
                /\ r.ret = NULL
                /\ r.members = members
                /\ r.members[i] = members[i] /\ r.members[j] = members[j]

\* An update by id has just failed on a store of two valid members, one
\* holding an org address and the other a Discord id.
C37_Witness ==
    /\ last.op = "create_or_update_member" /\ last.branch = "update"
    /\ last.err = "IntegrityError"
    /\ Len(members) = 2
    /\ \A i \in DOMAIN members : members[i].member_type \in MemberTypes
    /\ \E i \in DOMAIN members : members[i].email_508 # NULL
    /\ \E i \in DOMAIN members : members[i].discord_user_id # NULL

\* C38: in every reachable state every service_data row with a non-null
\* member_id refers to a row of the members table, whatever sequence of
\* create_or_update_member (colliding inserts included), set_service_data
\* and _cache_contact led there.
C38_ReferentialIntegrity ==
    \A s \in Rows(service_data) :
        s.member_id # NULL => \E m \in Rows(members) : m.id = s.member_id

\* An insert that collides with a member owning a record has just been
\* refused, and the record still points at its member.
C38_Witness ==
    /\ last.op = "create_or_update_member" /\ last.branch \in {"insert", "insert uuid"}
    /\ last.err = "IntegrityError"
    /\ \E s \in Rows(service_data), m \in Rows(members) :
           s.member_id = m.id /\ (m.email_508 # NULL \/ m.discord_user_id # NULL)

\* C39: at no clock value, the one equal to an entry's expires_at included,
\* does get_cache return a value for an entry that clear_expired_cache
\* called at that instant deletes or that get_stats counts as expired.
C39_ExpiryAgreement ==
    \A key \in CacheKeys :
        LET Other(o) == o.key # key
            rest == Where(cache, Other)
            swept == ClearExpiredCache(cache, now).cache
        IN  GetCache(cache, now, key).ret # None =>
                /\ \E o \in Rows(swept) : o.key = key
                /\ GetStats(members, service_data, cache, now).expired_cache
                       = GetStats(members, service_data, rest, now).expired_cache

\* C40: set_cache stores an entry without expiry exactly when no TTL is
\* supplied; with a TTL supplied, 0 included, the entry gets expires_at =
\* time of the write + TTL and is absent for every read made after that
\* time, and an entry written without TTL is returned by every later read.
C40_NeverExpiringOnlyWithoutTtl ==
    \A key \in CacheKeys, value \in CacheValues, service \in Services, ttl \in Ttls :
        LET ch == SetCache(cache, now, key, value, service, ttl)
        IN  /\ \E o \in Rows(ch) :
                   /\ o.key = key
                   /\ o.expires_at = IF ttl = NoTime THEN NoTime ELSE now + ttl
            /\ \A t \in now .. MaxTime + 1 :
                   /\ (ttl # NoTime /\ t > now + ttl) => GetCache(ch, t, key).ret = None
                   /\ ttl = NoTime => GetCache(ch, t, key).ret = value

====
